---- MODULE Spec2Model ----
(***************************************************************************)
(* Tokenizer suite of jax-js (packages/loaders/src/tokenizers.ts):         *)
(* tiktoken-style byte-pair encoding, its CLIP specialisation, and the     *)
(* SentencePiece Unigram tokenizer.                                        *)
(*                                                                         *)
(* Strings are sequences of UTF-16 code units (as JavaScript strings are), *)
(* byte arrays are sequences of 0..255, hex strings are strings of the     *)
(* characters 0-9a-f.  Indices kept inside data (part starts, regex        *)
(* indices, lastIndex) are 0-based as in the source.                       *)
(***************************************************************************)
EXTENDS Integers, Sequences, FiniteSets, TLC

(***************************************************************************)
(* Bounds of the model.                                                    *)
(***************************************************************************)
\* longest fragment (in bytes) handed to bytePairEncode directly
MaxPiece == 4

(***************************************************************************)
(* Characters (UTF-16 code units) used by the inputs.                      *)
(***************************************************************************)
chTab == 9
chLf == 10
chSpace == 32
chBang == 33
chQuote == 39
ch0 == 48
ch1 == 49
chLt == 60
chGt == 62
chUpA == 65
chLowA == 97
chLowB == chLowA + 1
chLowC == chLowA + 2
chLowS == 115
chLowT == 116
chLowX == 120
chBar == 124
chNbsp == 160
chBom == 65279
chHi == 55357
chLo == 56832

(***************************************************************************)
(* Generic helpers.                                                        *)
(***************************************************************************)
\* s.substring(a, b) / s.slice(a, b) for 0 <= a <= b <= s.length
substring(s, a, b) == SubSeq(s, a + 1, b)

\* 0-based element access, arr[j]
At(arr, j) == arr[j + 1]

RECURSIVE Concat(_)
\* ["..", ".."].join(""), joined by halves
Concat(ss) ==
  IF ss = <<>> THEN <<>>
  ELSE IF Len(ss) = 1 THEN ss[1]
  ELSE Concat(SubSeq(ss, 1, Len(ss) \div 2)) \o Concat(SubSeq(ss, (Len(ss) \div 2) + 1, Len(ss)))

\* all sequences over S of length 0..n
SeqsUpTo(S, n) == UNION {[1..k -> S] : k \in 0..n}

(***************************************************************************)
(* Hex/byte utilities.                                                     *)
(***************************************************************************)
\* b.toString(16): one hex digit as a character
HexDigit(d) == IF d < 10 THEN ch0 + d ELSE chLowA + (d - 10)

\* parseInt of one hex character (either case); -1 when not a hex digit
HexValue(c) ==
  IF c >= ch0 /\ c <= ch0 + 9 THEN c - ch0
  ELSE IF c >= chLowA /\ c <= chLowA + 5 THEN c - chLowA + 10
  ELSE IF c >= chUpA /\ c <= chUpA + 5 THEN c - chUpA + 10
  ELSE -1

\* b.toString(16).padStart(2, "0") for each byte, joined
_bytesToHex(arr) ==
  [k \in 1..(2 * Len(arr)) |->
     IF k % 2 = 1 THEN HexDigit(arr[(k + 1) \div 2] \div 16) ELSE HexDigit(arr[k \div 2] % 16)]

\* bytes[i] = parseInt(hex.substring(2 * i, 2 * i + 2), 16)
_bytesFromHex(hex) ==
  [k \in 1..(Len(hex) \div 2) |-> (HexValue(hex[(2 * k) - 1]) * 16) + HexValue(hex[2 * k])]

(***************************************************************************)
(* UTF-8: TextEncoder.encode and TextDecoder.decode.                       *)
(***************************************************************************)
IsHighSurrogate(u) == u >= 55296 /\ u <= 56319
IsLowSurrogate(u) == u >= 56320 /\ u <= 57343

\* UTF-8 bytes of one scalar value
Utf8OfCodePoint(cp) ==
  IF cp < 128 THEN <<cp>>
  ELSE IF cp < 2048 THEN <<192 + (cp \div 64), 128 + (cp % 64)>>
  ELSE IF cp < 65536 THEN <<224 + (cp \div 4096), 128 + ((cp \div 64) % 64), 128 + (cp % 64)>>
  ELSE <<240 + (cp \div 262144), 128 + ((cp \div 4096) % 64),
         128 + ((cp \div 64) % 64), 128 + (cp % 64)>>

\* new TextEncoder().encode(s): a surrogate pair is one code point, a lone
\* surrogate is replaced by U+FFFD.  A high surrogate followed by a low one
\* always pairs with it, so each unit's bytes depend on its neighbours only.
TextEncode(s) ==
  Concat([k \in 1..Len(s) |->
    IF IsHighSurrogate(s[k]) /\ k < Len(s) /\ IsLowSurrogate(s[k + 1])
      THEN Utf8OfCodePoint(65536 + ((s[k] - 55296) * 1024) + (s[k + 1] - 56320))
    ELSE IF IsLowSurrogate(s[k]) /\ k > 1 /\ IsHighSurrogate(s[k - 1]) THEN <<>>
    ELSE IF IsHighSurrogate(s[k]) \/ IsLowSurrogate(s[k]) THEN Utf8OfCodePoint(65533)
    ELSE Utf8OfCodePoint(s[k])])

\* UTF-16 code units of one scalar value
Utf16OfCodePoint(cp) ==
  IF cp < 65536 THEN <<cp>>
  ELSE <<55296 + ((cp - 65536) \div 1024), 56320 + ((cp - 65536) % 1024)>>

RECURSIVE Utf8Decode(_, _, _, _, _, _)
\* The WHATWG UTF-8 decoder (non-fatal): i is the 1-based position of the next
\* byte, need the continuation bytes still expected, lo..hi the range allowed
\* for the next one, cp the code point being assembled.
Utf8Decode(bytes, i, need, lo, hi, cp) ==
  IF i > Len(bytes) THEN (IF need > 0 THEN <<65533>> ELSE <<>>)
  ELSE LET b == bytes[i] IN
    IF need = 0 THEN
      IF b < 128 THEN <<b>> \o Utf8Decode(bytes, i + 1, 0, 128, 191, 0)
      ELSE IF b >= 194 /\ b <= 223 THEN Utf8Decode(bytes, i + 1, 1, 128, 191, b - 192)
      ELSE IF b >= 224 /\ b <= 239 THEN
        Utf8Decode(bytes, i + 1, 2, IF b = 224 THEN 160 ELSE 128,
                   IF b = 237 THEN 159 ELSE 191, b - 224)
      ELSE IF b >= 240 /\ b <= 244 THEN
        Utf8Decode(bytes, i + 1, 3, IF b = 240 THEN 144 ELSE 128,
                   IF b = 244 THEN 143 ELSE 191, b - 240)
      ELSE <<65533>> \o Utf8Decode(bytes, i + 1, 0, 128, 191, 0)
    ELSE IF b < lo \/ b > hi THEN <<65533>> \o Utf8Decode(bytes, i, 0, 128, 191, 0)
    ELSE IF need = 1 THEN
      Utf16OfCodePoint((cp * 64) + (b - 128)) \o Utf8Decode(bytes, i + 1, 0, 128, 191, 0)
    ELSE Utf8Decode(bytes, i + 1, need - 1, 128, 191, (cp * 64) + (b - 128))

\* The decoder run over a whole array.  An ASCII byte always leaves the decoder
\* in its start state, and a sequence cut short by one ends as it does at the
\* end of the input, so the array is decoded run by run, each run starting at
\* an ASCII byte.
Utf8DecodeAll(bytes) ==
  LET starts == SelectSeq([k \in 1..Len(bytes) |-> k], LAMBDA k : k = 1 \/ bytes[k] < 128)
  IN Concat([i \in 1..Len(starts) |->
       Utf8Decode(SubSeq(bytes, starts[i],
                         IF i < Len(starts) THEN starts[i + 1] - 1 ELSE Len(bytes)),
                  1, 0, 128, 191, 0)])

\* new TextDecoder().decode(bytes): ignoreBOM defaults to false, so a leading
\* byte order mark EF BB BF is consumed and not part of the output
TextDecode(bytes) ==
  IF Len(bytes) >= 3 /\ bytes[1] = 239 /\ bytes[2] = 187 /\ bytes[3] = 191
  THEN Utf8DecodeAll(SubSeq(bytes, 4, Len(bytes)))
  ELSE Utf8DecodeAll(bytes)

\* hex string of the UTF-8 bytes of a string
HexOf(str) == _bytesToHex(TextEncode(str))

\* the function with the given set of <<key, value>> pairs as its graph
MapOf(pairs) == [k \in {p[1] : p \in pairs} |-> (CHOOSE p \in pairs : p[1] = k)[2]]

(***************************************************************************)
(* Byte-pair merge engine.  A rank map is a function from hex strings to   *)
(* ranks; parts is a sequence of <<start, rank>>.                          *)
(***************************************************************************)
RANK_MAX == 2147483647

\* ranks.get(key) ?? RANK_MAX
RankOf(ranks, key) == IF key \in DOMAIN ranks THEN ranks[key] ELSE RANK_MAX

RECURSIVE ScanMinMut(_, _, _, _)
ScanMinMut(prts, j, upto, m) ==
  IF j >= upto THEN m
  ELSE ScanMinMut(prts, j + 1, upto, IF At(prts, j)[2] <= m[1] THEN <<At(prts, j)[2], j>> ELSE m)

RECURSIVE ScanMin(_, _, _, _)
\* for (j = ..; j < upto; j++) if (parts[j][1] < minRank[0]) minRank = [parts[j][1], j]
ScanMin(prts, j, upto, m) ==
  IF j >= upto THEN m
  ELSE ScanMin(prts, j + 1, upto, IF At(prts, j)[2] < m[1] THEN <<At(prts, j)[2], j>> ELSE m)

\* the parts built by the first loop and the two sentinels
InitialParts(ranks, hexPiece) ==
  LET n == Len(hexPiece) \div 2 IN
    [k \in 1..(n - 1) |-> <<k - 1, RankOf(ranks, substring(hexPiece, 2 * (k - 1), 2 * (k + 1)))>>]
      \o <<<<n - 1, RANK_MAX>>, <<n, RANK_MAX>>>>

\* minRank after the first loop (it covers the n - 1 real pairs)
InitialMinRank(ranks, hexPiece) ==
  ScanMin(InitialParts(ranks, hexPiece), 0, (Len(hexPiece) \div 2) - 1, <<RANK_MAX, -1>>)

getRankMut(ranks, hexPiece, prts, i) ==
  IF i + 3 < Len(prts)
  THEN RankOf(ranks, substring(hexPiece, 2 * At(prts, i)[1], 2 * At(prts, i + 2)[1]))
  ELSE RANK_MAX

getRank(ranks, hexPiece, prts, i) ==
  IF i + 3 < Len(prts)
  THEN RankOf(ranks, substring(hexPiece, 2 * At(prts, i)[1], 2 * At(prts, i + 3)[1]))
  ELSE RANK_MAX

Splice1Mut(arr, k) == SubSeq(arr, 1, k - 1) \o SubSeq(arr, k + 1, Len(arr))

\* parts.splice(k, 1)
Splice1(arr, k) == SubSeq(arr, 1, k) \o SubSeq(arr, k + 2, Len(arr))

MergePartsMut(ranks, hexPiece, prts, i) ==
  Splice1([prts EXCEPT ![i + 1] = <<prts[i + 1][1], getRank(ranks, hexPiece, prts, i)>>], i + 1)

\* one iteration of the while loop: the parts after the merge at minRank[1]
MergeParts(ranks, hexPiece, prts, i) ==
  LET p1 == IF i > 0
            THEN [prts EXCEPT ![i] = <<prts[i][1], getRank(ranks, hexPiece, prts, i - 1)>>]
            ELSE prts
      p2 == [p1 EXCEPT ![i + 1] = <<p1[i + 1][1], getRank(ranks, hexPiece, p1, i)>>]
  IN Splice1(p2, i + 1)

\* the re-scan at the end of an iteration
Rescan(prts) == ScanMin(prts, 0, Len(prts) - 1, <<RANK_MAX, -1>>)

RECURSIVE MergeLoop(_, _, _, _)
MergeLoop(ranks, hexPiece, prts, m) ==
  IF m[1] = RANK_MAX THEN prts
  ELSE LET next == MergeParts(ranks, hexPiece, prts, m[2])
       IN MergeLoop(ranks, hexPiece, next, Rescan(next))

_bytePairMerge(ranks, hexPiece) ==
  MergeLoop(ranks, hexPiece, InitialParts(ranks, hexPiece), InitialMinRank(ranks, hexPiece))

\* ranks.get(key)! : undefined when the key is absent
Undefined == -1
GetOrUndefined(ranks, key) == IF key \in DOMAIN ranks THEN ranks[key] ELSE Undefined

\* the token of each remaining part (all parts but the last sentinel)
PartTokens(ranks, hexPiece, prts) ==
  [k \in 1..(Len(prts) - 1) |->
     GetOrUndefined(ranks, substring(hexPiece, 2 * prts[k][1], 2 * prts[k + 1][1]))]

bytePairEncode(hexPiece, ranks) ==
  IF Len(hexPiece) \div 2 = 1 THEN <<GetOrUndefined(ranks, hexPiece)>>
  ELSE PartTokens(ranks, hexPiece, _bytePairMerge(ranks, hexPiece))

(***************************************************************************)
(* Character classes of the JavaScript regular expressions, on the code    *)
(* points the model uses (ASCII, Latin-1, and the symbols named above).    *)
(***************************************************************************)
\* \s
IsSpace(c) ==
  c \in {9, 10, 11, 12, 13, 32, 160, 5760, 8232, 8233, 8239, 8287, 12288, 65279}
    \/ (c >= 8192 /\ c <= 8202)

\* \p{L}
IsLetter(c) ==
  \/ (c >= 65 /\ c <= 90) \/ (c >= 97 /\ c <= 122)
  \/ c \in {170, 181, 186}
  \/ (c >= 192 /\ c <= 255 /\ c # 215 /\ c # 247)

\* \p{N}
IsNumber(c) == (c >= 48 /\ c <= 57) \/ c \in {178, 179, 185, 188, 189, 190}

\* [^\s\p{L}\p{N}]
IsOther(c) == ~IsSpace(c) /\ ~IsLetter(c) /\ ~IsNumber(c)

\* with the u flag a regex reads code points: <<code point, width in units>>
\* at the 0-based index i
CodePointAt(str, i) ==
  IF IsHighSurrogate(At(str, i)) /\ i + 1 < Len(str) /\ IsLowSurrogate(At(str, i + 1))
  THEN <<65536 + ((At(str, i) - 55296) * 1024) + (At(str, i + 1) - 56320), 2>>
  ELSE <<At(str, i), 1>>

RECURSIVE RunEndU(_, _, _)
\* end (exclusive) of the longest run of code points of class cls from i, u flag
RunEndU(str, i, cls) ==
  IF i >= Len(str) THEN i
  ELSE LET cpw == CodePointAt(str, i)
           inClass == CASE cls = "L" -> IsLetter(cpw[1])
                        [] cls = "N" -> IsNumber(cpw[1])
                        [] cls = "S" -> IsSpace(cpw[1])
                        [] OTHER -> IsOther(cpw[1])
       IN IF inClass THEN RunEndU(str, i + cpw[2], cls) ELSE i

\* str.startsWith(lit, i)
StartsWithAt(str, lit, i) ==
  i + Len(lit) <= Len(str) /\ substring(str, i, i + Len(lit)) = lit

(***************************************************************************)
(* r50kPattern:                                                            *)
(*  '(?:[sdmt]|ll|ve|re)| ?[\p{L}]+| ?[\p{N}]+| ?[^\s\p{L}\p{N}]+          *)
(*  |\s+(?!\S)|\s+      (flags gu)                                         *)
(* The end (exclusive) of the match starting at i, -1 when none starts     *)
(* there.  Alternatives are tried in order; each is greedy.                *)
(***************************************************************************)
\* ' ?X+' for a class X: the optional space is taken when X follows it
OptSpaceRun(str, i, cls) ==
  LET j == IF At(str, i) = chSpace THEN i + 1 ELSE i
      e == RunEndU(str, j, cls)
  IN IF e > j THEN e ELSE -1

r50kContraction(str, i) ==
  IF At(str, i) # chQuote THEN -1
  ELSE IF i + 1 < Len(str) /\ At(str, i + 1) \in {115, 100, 109, 116} THEN i + 2
  ELSE IF \/ StartsWithAt(str, <<108, 108>>, i + 1)
          \/ StartsWithAt(str, <<118, 101>>, i + 1)
          \/ StartsWithAt(str, <<114, 101>>, i + 1) THEN i + 3
  ELSE -1

\* \s+(?!\S): the longest whitespace run not followed by a non-space
r50kSpaceNotBeforeWord(str, i) ==
  LET e == RunEndU(str, i, "S") IN
    IF e = i THEN -1
    ELSE IF e = Len(str) THEN e
    ELSE IF e - 1 > i THEN e - 1
    ELSE -1

r50kMatchEnd(str, i) ==
  LET a1 == r50kContraction(str, i)
      a2 == OptSpaceRun(str, i, "L")
      a3 == OptSpaceRun(str, i, "N")
      a4 == OptSpaceRun(str, i, "O")
      a5 == r50kSpaceNotBeforeWord(str, i)
      a6 == RunEndU(str, i, "S")
  IN IF a1 # -1 THEN a1
     ELSE IF a2 # -1 THEN a2
     ELSE IF a3 # -1 THEN a3
     ELSE IF a4 # -1 THEN a4
     ELSE IF a5 # -1 THEN a5
     ELSE IF a6 > i THEN a6
     ELSE -1

(***************************************************************************)
(* ClipEncoding.pattern:                                                   *)
(*  (?:'s|'t|'re|'ve|'m|'ll|'d|[a-z]+|[0-9]|[^\s\w]+) ?   (flag g)         *)
(* No u flag: the pattern reads UTF-16 code units, \w is [A-Za-z0-9_].     *)
(***************************************************************************)
IsWordChar(c) ==
  (c >= 65 /\ c <= 90) \/ (c >= 97 /\ c <= 122) \/ (c >= 48 /\ c <= 57) \/ c = 95

RECURSIVE RunEndLower(_, _)
\* [a-z]+
RunEndLower(str, i) ==
  IF i < Len(str) /\ At(str, i) >= 97 /\ At(str, i) <= 122 THEN RunEndLower(str, i + 1) ELSE i

RECURSIVE RunEndSymbol(_, _)
\* [^\s\w]+
RunEndSymbol(str, i) ==
  IF i < Len(str) /\ ~IsSpace(At(str, i)) /\ ~IsWordChar(At(str, i))
  THEN RunEndSymbol(str, i + 1) ELSE i

clipContraction(str, i) ==
  IF StartsWithAt(str, <<chQuote, 115>>, i) \/ StartsWithAt(str, <<chQuote, 116>>, i) THEN i + 2
  ELSE IF StartsWithAt(str, <<chQuote, 114, 101>>, i)
          \/ StartsWithAt(str, <<chQuote, 118, 101>>, i) THEN i + 3
  ELSE IF StartsWithAt(str, <<chQuote, 109>>, i) THEN i + 2
  ELSE IF StartsWithAt(str, <<chQuote, 108, 108>>, i) THEN i + 3
  ELSE IF StartsWithAt(str, <<chQuote, 100>>, i) THEN i + 2
  ELSE -1

clipMatchEnd(str, i) ==
  LET c == clipContraction(str, i)
      core == IF c # -1 THEN c
              ELSE IF RunEndLower(str, i) > i THEN RunEndLower(str, i)
              ELSE IF At(str, i) >= 48 /\ At(str, i) <= 57 THEN i + 1
              ELSE IF RunEndSymbol(str, i) > i THEN RunEndSymbol(str, i)
              ELSE -1
  IN IF core = -1 THEN -1
     ELSE IF core < Len(str) /\ At(str, core) = chSpace THEN core + 1
     ELSE core

\* the end of the match of the named pattern at i
MatchEnd(pattern, str, i) ==
  IF pattern = "clip" THEN clipMatchEnd(str, i) ELSE r50kMatchEnd(str, i)

RECURSIVE MatchAllFrom(_, _, _)
\* str.matchAll(pattern): the matched substrings in order.  Where no match
\* starts the search moves on by one position (one code point with the u flag).
MatchAllFrom(pattern, str, i) ==
  IF i >= Len(str) THEN <<>>
  ELSE LET e == MatchEnd(pattern, str, i)
           step == IF pattern = "clip" THEN 1 ELSE CodePointAt(str, i)[2]
       IN IF e = -1 THEN MatchAllFrom(pattern, str, i + step)
          ELSE <<substring(str, i, e)>> \o MatchAllFrom(pattern, str, e)

MatchAll(pattern, str) == MatchAllFrom(pattern, str, 0)

(***************************************************************************)
(* JavaScript string helpers used by the hooks and the normalizer.         *)
(***************************************************************************)
\* String.prototype.toLowerCase, on ASCII and Latin-1
LowerUnit(c) ==
  IF (c >= 65 /\ c <= 90) \/ (c >= 192 /\ c <= 222 /\ c # 215) THEN c + 32 ELSE c

toLowerCase(str) == [k \in 1..Len(str) |-> LowerUnit(str[k])]

\* str.replace(/\s+/g, " "): of each whitespace run its first character is
\* kept, as a space
CollapseSpaces(str) ==
  LET kept == SelectSeq([k \in 1..Len(str) |-> k],
                        LAMBDA k : ~IsSpace(str[k]) \/ k = 1 \/ ~IsSpace(str[k - 1]))
  IN [i \in 1..Len(kept) |-> IF IsSpace(str[kept[i]]) THEN chSpace ELSE str[kept[i]]]

RECURSIVE TrimStart(_)
TrimStart(str) == IF str # <<>> /\ IsSpace(str[1]) THEN TrimStart(Tail(str)) ELSE str

RECURSIVE TrimEnd(_)
TrimEnd(str) ==
  IF str # <<>> /\ IsSpace(str[Len(str)]) THEN TrimEnd(SubSeq(str, 1, Len(str) - 1)) ELSE str

\* String.prototype.trim
trim(str) == TrimEnd(TrimStart(str))

(***************************************************************************)
(* BpeEncoding and ClipEncoding.  An instance is a record; encoder and     *)
(* decoder are functions, specialTokensEncoder keeps its entries in key    *)
(* order as a sequence of <<literal, rank>>.                               *)
(***************************************************************************)
\* the loops of the constructor that throw on a rank seen before
DuplicateEncoderRank(encoder) ==
  \E k1 \in DOMAIN encoder, k2 \in DOMAIN encoder : k1 # k2 /\ encoder[k1] = encoder[k2]

DuplicateSpecialRankMut(encoder, specialTokens) ==
  \E k \in 1..Len(specialTokens) :
    \E key \in DOMAIN encoder : encoder[key] = specialTokens[k][2]

DuplicateSpecialRank(encoder, specialTokens) ==
  \E k \in 1..Len(specialTokens) :
    \/ \E key \in DOMAIN encoder : encoder[key] = specialTokens[k][2]
    \/ \E j \in 1..(k - 1) : specialTokens[j][2] = specialTokens[k][2]

\* new BpeEncoding(encoder, specialTokens, regex), when it does not throw
BpeEncoding(kind, encoder, specialTokens) ==
  [ kind |-> kind,
    regex |-> IF kind = "clip" THEN "clip" ELSE "r50k",
    encoder |-> encoder,
    specialTokensEncoder |-> specialTokens,
    decoder |-> MapOf({<<encoder[key], key>> : key \in DOMAIN encoder}),
    specialTokensDecoder |->
      MapOf({<<specialTokens[k][2], HexOf(specialTokens[k][1])>> : k \in 1..Len(specialTokens)}) ]

\* "<|startoftext|>" and "<|endoftext|>"
sotLiteral ==
  <<chLt, chBar>> \o <<115, 116, 97, 114, 116, 111, 102, 116, 101, 120, 116>> \o <<chBar, chGt>>
eotLiteral ==
  <<chLt, chBar>> \o <<101, 110, 100, 111, 102, 116, 101, 120, 116>> \o <<chBar, chGt>>

ClipEncodingMut(encoder) ==
  BpeEncoding("clip", encoder,
              << <<sotLiteral, Cardinality(DOMAIN encoder) + 1>>,
                 <<eotLiteral, Cardinality(DOMAIN encoder) + 2>> >>)

\* new ClipEncoding(encoder)
ClipEncoding(encoder) ==
  BpeEncoding("clip", encoder,
              << <<sotLiteral, Cardinality(DOMAIN encoder)>>,
                 <<eotLiteral, Cardinality(DOMAIN encoder) + 1>> >>)

\* this.specialTokensEncoder.get(literal)
SpecialRank(inst, literal) ==
  LET ks == {k \in 1..Len(inst.specialTokensEncoder) : inst.specialTokensEncoder[k][1] = literal}
  IN IF ks = {} THEN Undefined ELSE inst.specialTokensEncoder[CHOOSE k \in ks : TRUE][2]

\* specialTokens(): the set of literals
specialTokens(inst) ==
  {inst.specialTokensEncoder[k][1] : k \in 1..Len(inst.specialTokensEncoder)}

\* no match
Null == [index |-> -1, match |-> <<>>]

RECURSIVE FirstLiteralAt(_, _, _, _)
\* the first alternative of specialRegex that matches at i: its position in
\* key order, 0 when none does
FirstLiteralAt(specials, str, i, k) ==
  IF k > Len(specials) THEN 0
  ELSE IF StartsWithAt(str, specials[k][1], i) THEN k
  ELSE FirstLiteralAt(specials, str, i, k + 1)

\* this.specialRegex.exec(text) with this.specialRegex.lastIndex = i: the
\* leftmost match at or after i.  An empty alternation matches the empty
\* string where it stands.
SpecialExec(specials, str, i) ==
  IF i > Len(str) THEN Null
  ELSE IF specials = <<>> THEN [index |-> i, match |-> <<>>]
  ELSE LET hits == {j \in i..Len(str) : FirstLiteralAt(specials, str, j, 1) # 0}
       IN IF hits = {} THEN Null
          ELSE LET first == CHOOSE j \in hits : \A h \in hits : j <= h
               IN [index |-> first, match |-> specials[FirstLiteralAt(specials, str, first, 1)][1]]

\* allowedSpecial?.has(literal); an omitted argument is [given |-> FALSE]
AllowedHasMut(allowed, literal) == TRUE
AllowedHas(allowed, literal) == allowed.given /\ literal \in allowed.has

\* nextSpecial.length: the length of the array exec returns, 1 + the number
\* of capture groups; specialRegex has none
ExecArrayLength(m) == 1

\* the tokens of one regex match
EncodePiece(encoder, m) ==
  LET hexPiece == HexOf(m)
  IN IF hexPiece \in DOMAIN encoder THEN <<encoder[hexPiece]>>
     ELSE bytePairEncode(hexPiece, encoder)

\* ret.push(...) for each match in order
EncodePieces(encoder, ms) == Concat([k \in 1..Len(ms) |-> EncodePiece(encoder, ms[k])])

\* the loop over text.slice(start, end).matchAll(this.regex)
EncodeFragment(inst, str, from, to) ==
  EncodePieces(inst.encoder, MatchAll(inst.regex, substring(str, from, to)))

\* matches.map((m) => m[0] + " ").join("")
AppendSpace(ms) == Concat([k \in 1..Len(ms) |-> ms[k] \o <<chSpace>>])

_beforeEncodeMut(inst, str) ==
  IF inst.kind = "clip" THEN trim(CollapseSpaces(toLowerCase(str))) ELSE str

_beforeEncode(inst, str) ==
  IF inst.kind = "clip"
  THEN AppendSpace(MatchAll("clip", trim(CollapseSpaces(toLowerCase(str)))))
  ELSE str

\* the context length of CLIP
ClipLength == 77

\* while (result.length < n) result.push(0)
PadTo(arr, n) == IF Len(arr) < n THEN arr \o [k \in 1..(n - Len(arr)) |-> 0] ELSE arr

_afterEncodeEosLast(inst, toks) ==
  IF inst.kind = "clip"
  THEN SubSeq(PadTo(<<SpecialRank(inst, sotLiteral)>> \o toks, ClipLength - 1), 1, ClipLength - 1)
         \o <<SpecialRank(inst, eotLiteral)>>
  ELSE toks

_afterEncodeMut(inst, toks) ==
  IF inst.kind = "clip"
  THEN PadTo(<<SpecialRank(inst, sotLiteral)>> \o toks \o <<SpecialRank(inst, eotLiteral)>>,
             ClipLength)
  ELSE toks

_afterEncode(inst, toks) ==
  IF inst.kind = "clip"
  THEN SubSeq(PadTo(<<SpecialRank(inst, sotLiteral)>> \o toks \o <<SpecialRank(inst, eotLiteral)>>,
                    ClipLength),
              1, ClipLength)
  ELSE toks

\* tokens.filter((t) => t !== 0)
RemoveZeros(toks) == SelectSeq(toks, LAMBDA t : t # 0)

_beforeDecodeMut(inst, toks) == toks

_beforeDecode(inst, toks) == IF inst.kind = "clip" THEN RemoveZeros(toks) ELSE toks

\* the bytes of one token: decoder first, then specialTokensDecoder
TokenHex(inst, t) ==
  IF t \in DOMAIN inst.decoder THEN inst.decoder[t] ELSE inst.specialTokensDecoder[t]

KnownToken(inst, t) == t \in DOMAIN inst.decoder \/ t \in DOMAIN inst.specialTokensDecoder

decodeBytesMut(inst, toks) ==
  LET ts == SelectSeq(_beforeDecode(inst, toks), LAMBDA t : KnownToken(inst, t))
  IN [threw |-> FALSE,
      value |-> _bytesFromHex(Concat([k \in 1..Len(ts) |-> TokenHex(inst, ts[k])]))]

\* decodeBytes(tokens): [threw, value]
decodeBytes(inst, toks) ==
  LET ts == _beforeDecode(inst, toks)
  IN IF \E k \in 1..Len(ts) : ~KnownToken(inst, ts[k])
     THEN [threw |-> TRUE, value |-> <<>>]
     ELSE [threw |-> FALSE,
           value |-> _bytesFromHex(Concat([k \in 1..Len(ts) |-> TokenHex(inst, ts[k])]))]

\* decode(tokens): [threw, value]
decode(inst, toks) ==
  LET b == decodeBytes(inst, toks)
  IN IF b.threw THEN b ELSE [threw |-> FALSE, value |-> TextDecode(b.value)]

RECURSIVE ScanFrom(_, _, _, _)
\* the inner loop of encode with specialRegex.lastIndex = i: the first match
\* at or after i that is allowed, or Null
ScanFrom(inst, str, allowed, i) ==
  LET m == SpecialExec(inst.specialTokensEncoder, str, i)
  IN IF m = Null \/ AllowedHas(allowed, m.match) THEN m
     ELSE ScanFrom(inst, str, allowed, m.index + 1)

RECURSIVE EncodeFrom(_, _, _, _, _)
\* the outer loop of encode from start on, with ret so far
EncodeFrom(inst, str, allowed, from, sofar) ==
  LET m == ScanFrom(inst, str, allowed, from)
      body == sofar \o EncodeFragment(inst, str, from, IF m # Null THEN m.index ELSE Len(str))
  IN IF m # Null
     THEN EncodeFrom(inst, str, allowed, m.index + ExecArrayLength(m),
                     Append(body, SpecialRank(inst, m.match)))
     ELSE body

\* encode(text, allowedSpecial) on an instance whose specialRegex was never
\* used
encode(inst, str, allowed) ==
  _afterEncode(inst, EncodeFrom(inst, _beforeEncode(inst, str), allowed, 0, <<>>))

(***************************************************************************)
(* loadClipData: the rank table built from the merge lines.                *)
(***************************************************************************)
PrintableBytesMut == [k \in 1..94 |-> 32 + k] \o [k \in 1..95 |-> 160 + k]

\* the three for loops that fill rankToIntbyte with the printable bytes
PrintableBytes ==
  [k \in 1..94 |-> 32 + k] \o [k \in 1..12 |-> 160 + k] \o [k \in 1..82 |-> 173 + k]

\* arr.includes(b)
Includes(arr, b) == \E k \in 1..Len(arr) : arr[k] = b

\* the bytes the loop for (b = 0; b < 256; b++) finds missing, and the one
\* it finds n-th (n = 0, 1, ...): b rises, so they come in increasing order
MissingBytes == {b \in 0..255 : ~Includes(PrintableBytes, b)}
NthMissing(n) == CHOOSE b \in MissingBytes : Cardinality({x \in MissingBytes : x < b}) = n

\* rankToIntbyte, dataGymByteToByte and escapedSpace after that loop: each
\* missing byte b is pushed and String.fromCharCode(256 + n) mapped to it
ByteTable ==
  [ rankToIntbyte |->
      PrintableBytes \o [k \in 1..Cardinality(MissingBytes) |-> NthMissing(k - 1)],
    dataGymByteToByte |->
      [c \in {PrintableBytes[k] : k \in 1..Len(PrintableBytes)}
               \cup {256 + n : n \in 0..(Cardinality(MissingBytes) - 1)}
         |-> IF c < 256 THEN c ELSE NthMissing(c - 256)],
    escapedSpace |->
      IF 32 \in MissingBytes
      THEN <<256 + Cardinality({x \in MissingBytes : x < 32})>>
      ELSE <<chSpace>> ]

RECURSIVE ReplaceAll(_, _, _)
\* str.replace(/lit/g, by)
ReplaceAll(str, lit, by) ==
  IF str = <<>> THEN <<>>
  ELSE IF StartsWithAt(str, lit, 0)
    THEN by \o ReplaceAll(substring(str, Len(lit), Len(str)), lit, by)
  ELSE <<str[1]>> \o ReplaceAll(Tail(str), lit, by)

\* "</w>"
EndOfWord == <<60, 47, 119, 62>>

\* a character without an entry becomes the byte 0 in the Uint8Array
decodeDataGym(value) ==
  LET v == ReplaceAll(value, EndOfWord, ByteTable.escapedSpace)
  IN _bytesToHex([k \in 1..Len(v) |->
       IF v[k] \in DOMAIN ByteTable.dataGymByteToByte
       THEN ByteTable.dataGymByteToByte[v[k]] ELSE 0])

\* encoder.set(key, value)
MapSet(m, key, value) == [x \in DOMAIN m \cup {key} |-> IF x = key THEN value ELSE m[x]]

SeedEncoderMut ==
  MapOf({<<_bytesToHex(<<ByteTable.rankToIntbyte[k]>>), k - 1>> : k \in 1..256}
        \cup {<<_bytesToHex(<<ByteTable.rankToIntbyte[k], 32>>), k - 1 + 255>> : k \in 1..256})

\* the two loops over rankToIntbyte.entries()
SeedEncoder ==
  MapOf({<<_bytesToHex(<<ByteTable.rankToIntbyte[k]>>), k - 1>> : k \in 1..256}
        \cup {<<_bytesToHex(<<ByteTable.rankToIntbyte[k], 32>>), k - 1 + 256>> : k \in 1..256})

\* line.split(" ") of a merge line "first second"
SplitAtSpace(line) ==
  LET k == CHOOSE j \in 1..Len(line) : line[j] = chSpace /\ \A h \in 1..(j - 1) : line[h] # chSpace
  IN <<SubSeq(line, 1, k - 1), SubSeq(line, k + 1, Len(line))>>

RECURSIVE AddMerges(_, _)
\* for (const line of merges) encoder.set(first' + second', encoder.size)
AddMerges(encoder, merges) ==
  IF merges = <<>> THEN encoder
  ELSE LET fs == SplitAtSpace(Head(merges))
       IN AddMerges(MapSet(encoder, decodeDataGym(fs[1]) \o decodeDataGym(fs[2]),
                           Cardinality(DOMAIN encoder)),
                    Tail(merges))

\* the encoder loadClipData returns for the given merge lines
ClipEncoder(merges) == AddMerges(SeedEncoder, merges)

(***************************************************************************)
(* SentencePiece Unigram.  A model is [pieces, addDummyPrefix,             *)
(* removeExtraWhitespaces], a piece [piece, score, type]; ids are the      *)
(* 0-based indices of the pieces.  Scores are integers.  A trie node is    *)
(* the sequence of the keys on the way to it, a key being the string of    *)
(* one character.                                                          *)
(***************************************************************************)
SPIECE_UNDERLINE == 9601

\* -Infinity, below every sum of scores of the model
NegInfinity == -1000000

\* prev[i] === null
NoPrev == <<-1, <<>>>>

\* for (const char of piece): the string cut into code points, a surrogate
\* pair being one of them
CodePointsOf(str) ==
  LET firsts == SelectSeq([k \in 1..Len(str) |-> k],
                          LAMBDA k : ~(IsLowSurrogate(str[k]) /\ k > 1 /\ IsHighSurrogate(str[k - 1])))
  IN [i \in 1..Len(firsts) |->
        IF IsHighSurrogate(str[firsts[i]]) /\ firsts[i] < Len(str)
             /\ IsLowSurrogate(str[firsts[i] + 1])
        THEN <<str[firsts[i]], str[firsts[i] + 1]>>
        ELSE <<str[firsts[i]]>>]

\* createTrieNode() for the root
EmptyTrie == [nodes |-> {<<>>}, token |-> <<>>]

\* #insertIntoTrie(piece, id, score)
insertIntoTrie(trie, pieceStr, id, score) ==
  LET path == CodePointsOf(pieceStr)
  IN [nodes |-> trie.nodes \cup {SubSeq(path, 1, k) : k \in 0..Len(path)},
      token |-> [x \in DOMAIN trie.token \cup {path} |->
                   IF x = path THEN [id |-> id, score |-> score] ELSE trie.token[x]]]

\* pieceStr.match(/^<0x([0-9A-Fa-f]{2})>$/): the two hex characters, <<>> when
\* there is no match
ByteMatch(pieceStr) ==
  IF /\ Len(pieceStr) = 6
     /\ pieceStr[1] = chLt /\ pieceStr[2] = ch0 /\ pieceStr[3] = chLowX /\ pieceStr[6] = chGt
     /\ HexValue(pieceStr[4]) # -1 /\ HexValue(pieceStr[5]) # -1
  THEN <<pieceStr[4], pieceStr[5]>>
  ELSE <<>>

\* match[1].toLowerCase()
LowerHex(h) == [k \in 1..Len(h) |-> IF h[k] >= chUpA /\ h[k] <= chUpA + 5 THEN h[k] + 32 ELSE h[k]]

RECURSIVE InsertAll(_, _, _)
\* the constructor's loop, over the pieces that go into the trie (ks: their
\* 1-based positions in order)
InsertAll(trie, pieces, ks) ==
  IF ks = <<>> THEN trie
  ELSE InsertAll(insertIntoTrie(trie, pieces[Head(ks)].piece, Head(ks) - 1, pieces[Head(ks)].score),
                 pieces, Tail(ks))

UnigramMut(model) ==
  LET pieces == model.pieces
      \* <<hex, id>> of the BYTE pieces that match; of two with the same hex the
      \* later one stays
      sets == {<<LowerHex(ByteMatch(pieces[k].piece)), k - 1>> :
                 k \in {j \in 1..Len(pieces) : pieces[j].type = "BYTE"}}
      kept == {p \in sets : p[1] # <<>> /\ \A q \in sets : q[1] = p[1] => q[2] <= p[2]}
  IN [ trie |-> InsertAll(EmptyTrie, pieces,
                          SelectSeq([k \in 1..Len(pieces) |-> k],
                                    LAMBDA k : pieces[k].type # "BYTE")),
       decoder |-> [i \in 0..(Len(pieces) - 1) |-> pieces[i + 1].piece],
       byteFallback |->
         MapOf(kept),
       unkId |-> 0,
       bosId |-> 1,
       eosId |-> 2,
       addDummyPrefix |-> model.addDummyPrefix,
       removeExtraWhitespaces |-> model.removeExtraWhitespaces ]

\* new Unigram(model), with the default special ids of the trainer spec
Unigram(model) ==
  LET pieces == model.pieces
      \* <<hex, id>> of the BYTE pieces that match; of two with the same hex the
      \* later one stays
      sets == {<<LowerHex(ByteMatch(pieces[k].piece)), k - 1>> :
                 k \in {j \in 1..Len(pieces) : pieces[j].type = "BYTE"}}
      kept == {p \in sets : p[1] # <<>> /\ \A q \in sets : q[1] = p[1] => q[2] <= p[2]}
  IN [ trie |-> InsertAll(EmptyTrie, pieces,
                          SelectSeq([k \in 1..Len(pieces) |-> k],
                                    LAMBDA k : pieces[k].type \in {"NORMAL", "USER_DEFINED"})),
       decoder |-> [i \in 0..(Len(pieces) - 1) |-> pieces[i + 1].piece],
       byteFallback |->
         MapOf(kept),
       unkId |-> 0,
       bosId |-> 1,
       eosId |-> 2,
       addDummyPrefix |-> model.addDummyPrefix,
       removeExtraWhitespaces |-> model.removeExtraWhitespaces ]

RECURSIVE FindWalk(_, _, _, _, _)
\* the loop of #findPiecesAt: text[i] is one UTF-16 code unit
FindWalk(trie, str, i, node, results) ==
  IF i >= Len(str) THEN results
  ELSE LET child == Append(node, <<At(str, i)>>)
       IN IF child \notin trie.nodes THEN results
          ELSE FindWalk(trie, str, i + 1, child,
                        IF child \in DOMAIN trie.token
                        THEN Append(results, <<i + 1, trie.token[child].id, trie.token[child].score>>)
                        ELSE results)

\* #findPiecesAt(text, start): <<end, id, score>> in the order found
findPiecesAt(inst, str, from) == FindWalk(inst.trie, str, from, <<>>, <<>>)

normalizeMut(inst, str) ==
  LET t1 == IF inst.removeExtraWhitespaces THEN trim(CollapseSpaces(str)) ELSE str
      t2 == IF inst.addDummyPrefix THEN <<chSpace>> \o t1 ELSE t1
  IN [k \in 1..Len(t2) |-> IF t2[k] = chSpace THEN SPIECE_UNDERLINE ELSE t2[k]]

\* #normalize(text)
normalize(inst, str) ==
  LET t1 == IF inst.removeExtraWhitespaces THEN trim(CollapseSpaces(str)) ELSE str
  IN IF Len(t1) = 0 THEN <<>>
     ELSE LET t2 == IF inst.addDummyPrefix THEN <<chSpace>> \o t1 ELSE t1
          IN [k \in 1..Len(t2) |-> IF t2[k] = chSpace THEN SPIECE_UNDERLINE ELSE t2[k]]

\* best and prev before the forward pass
InitialBest(n) == [k \in 1..(n + 1) |-> IF k = 1 THEN 0 ELSE NegInfinity]
InitialPrev(n) == [k \in 1..(n + 1) |-> NoPrev]

RECURSIVE ApplyMatches(_, _, _)
\* for (const [end, id, score] of matches): st is [best, prev]
ApplyMatches(st, i, matches) ==
  IF matches = <<>> THEN st
  ELSE LET m == Head(matches)
           newScore == At(st.best, i) + m[3]
       IN ApplyMatches(IF newScore > At(st.best, m[1])
                       THEN [best |-> [st.best EXCEPT ![m[1] + 1] = newScore],
                             prev |-> [st.prev EXCEPT ![m[1] + 1] = <<i, <<m[2]>> >>]]
                       ELSE st,
                       i, Tail(matches))

\* the ids of the bytes of one code unit: byteFallback.get(hex) or unkId
ByteTokens(inst, unit) ==
  LET bytes == TextEncode(<<unit>>)
  IN [k \in 1..Len(bytes) |->
        IF _bytesToHex(<<bytes[k]>>) \in DOMAIN inst.byteFallback
        THEN inst.byteFallback[_bytesToHex(<<bytes[k]>>)]
        ELSE inst.unkId]

ForwardStepMut(inst, str, st, i) ==
  IF At(st.best, i) = NegInfinity THEN st
  ELSE ApplyMatches(st, i, findPiecesAt(inst, str, i))

\* one iteration of the forward loop, for position i
ForwardStep(inst, str, st, i) ==
  IF At(st.best, i) = NegInfinity THEN st
  ELSE LET s1 == ApplyMatches(st, i, findPiecesAt(inst, str, i))
       IN IF At(s1.prev, i + 1) = NoPrev
          THEN [best |-> [s1.best EXCEPT ![i + 2] = At(s1.best, i)],
                prev |-> [s1.prev EXCEPT ![i + 2] = <<i, ByteTokens(inst, At(str, i))>>]]
          ELSE s1

RECURSIVE ForwardLoop(_, _, _, _)
ForwardLoop(inst, str, st, i) ==
  IF i >= Len(str) THEN st ELSE ForwardLoop(inst, str, ForwardStep(inst, str, st, i), i + 1)

\* arr.reverse()
Reverse(arr) == [k \in 1..Len(arr) |-> arr[Len(arr) + 1 - k]]

\* one iteration of the backtrack loop at pos: [tokens, pos] after it
BacktrackStep(inst, str, prv, toks, pos) ==
  IF At(prv, pos) = NoPrev
  THEN [tokens |-> toks \o Reverse(ByteTokens(inst, At(str, pos - 1))), pos |-> pos - 1]
  ELSE [tokens |-> toks \o Reverse(At(prv, pos)[2]), pos |-> At(prv, pos)[1]]

RECURSIVE BacktrackLoop(_, _, _, _, _)
BacktrackLoop(inst, str, prv, toks, pos) ==
  IF pos <= 0 THEN toks
  ELSE LET b == BacktrackStep(inst, str, prv, toks, pos)
       IN BacktrackLoop(inst, str, prv, b.tokens, b.pos)

\* Unigram.encode(text)
UnigramEncode(inst, str) ==
  LET t == normalize(inst, str)
  IN IF Len(t) = 0 THEN <<>>
     ELSE LET st == ForwardLoop(inst, t, [best |-> InitialBest(Len(t)), prev |-> InitialPrev(Len(t))], 0)
          IN Reverse(BacktrackLoop(inst, t, st.prev, <<>>, Len(t)))

\* parseInt(byteMatch[1], 16) of the piece of a token; -1 when the token has
\* no piece or its piece is not a byte piece
ByteOfToken(inst, t) ==
  IF t \notin DOMAIN inst.decoder \/ ByteMatch(inst.decoder[t]) = <<>> THEN -1
  ELSE (HexValue(ByteMatch(inst.decoder[t])[1]) * 16) + HexValue(ByteMatch(inst.decoder[t])[2])

RECURSIVE ByteRunEnd(_, _, _)
\* the inner while of decode: the index after the run of byte tokens from i
ByteRunEnd(inst, toks, i) ==
  IF i < Len(toks) /\ ByteOfToken(inst, At(toks, i)) # -1 THEN ByteRunEnd(inst, toks, i + 1) ELSE i

RECURSIVE DecodePieces(_, _, _)
\* the outer while of decode: the pieces pushed from i on, joined
DecodePieces(inst, toks, i) ==
  IF i >= Len(toks) THEN <<>>
  ELSE IF At(toks, i) \notin DOMAIN inst.decoder
    THEN <<65533>> \o DecodePieces(inst, toks, i + 1)
  ELSE IF ByteOfToken(inst, At(toks, i)) # -1
    THEN LET e == ByteRunEnd(inst, toks, i + 1)
         IN TextDecode([k \in 1..(e - i) |-> ByteOfToken(inst, toks[i + k])])
              \o DecodePieces(inst, toks, e)
  ELSE inst.decoder[At(toks, i)] \o DecodePieces(inst, toks, i + 1)

\* Unigram.decode(tokens)
UnigramDecode(inst, toks) ==
  LET joined == DecodePieces(inst, toks, 0)
      result == [k \in 1..Len(joined) |->
                   IF joined[k] = SPIECE_UNDERLINE THEN chSpace ELSE joined[k]]
  IN IF inst.addDummyPrefix /\ result # <<>> /\ result[1] = chSpace
     THEN substring(result, 1, Len(result))
     ELSE result

(***************************************************************************)
(* The loaders: getBpe, loadTiktokenBpe, loadClipData's reading of the     *)
(* file, loadSentencePiece, and the BpeEncoding constructor with its       *)
(* checks.  What a step may throw is [threw, error, ...].                  *)
(***************************************************************************)
\* NaN, the value of parseInt where there is no number; equal to itself as a
\* key or value of a Map
NaN == -999999

\* str.split(sep) for a separator of one character
SplitOn(str, sep) ==
  LET cuts == <<0>> \o SelectSeq([k \in 1..Len(str) |-> k], LAMBDA k : str[k] = sep)
                   \o <<Len(str) + 1>>
  IN [i \in 1..(Len(cuts) - 1) |-> SubSeq(str, cuts[i] + 1, cuts[i + 1] - 1)]

\* str.split(/\s+/)
SplitWs(str) == SplitOn(CollapseSpaces(str), chSpace)

\* the value of a digit of parseInt, 99 for any other character
DigitOf(c) ==
  IF c >= ch0 /\ c <= ch0 + 9 THEN c - ch0
  ELSE IF c >= chLowA /\ c <= chLowA + 25 THEN c - chLowA + 10
  ELSE IF c >= chUpA /\ c <= chUpA + 25 THEN c - chUpA + 10
  ELSE 99

RECURSIVE DigitRun(_, _, _, _)
\* the number the longest run of digits from position i (1-based) stands
\* for, on top of acc; NaN when acc is NaN and there is no digit
DigitRun(str, i, radix, acc) ==
  IF i > Len(str) \/ DigitOf(str[i]) >= radix THEN acc
  ELSE DigitRun(str, i + 1, radix, (IF acc = NaN THEN 0 ELSE acc * radix) + DigitOf(str[i]))

\* String(undefined), what parseInt makes of an argument that is undefined
undefinedText == <<117, 110, 100, 101, 102, 105, 110, 101, 100>>

\* parseInt(str) without radix
parseInt(str) ==
  LET t == TrimStart(str)
      neg == t # <<>> /\ t[1] = 45
      u == IF t # <<>> /\ t[1] \in {43, 45} THEN Tail(t) ELSE t
      hex == Len(u) >= 2 /\ u[1] = ch0 /\ u[2] \in {chLowX, 88}
      n == IF hex THEN DigitRun(u, 3, 16, NaN) ELSE DigitRun(u, 1, 10, NaN)
  IN IF n = NaN THEN NaN ELSE IF neg THEN 0 - n ELSE n

\* the six bits of a character of the base64 alphabet, -1 for any other
Base64Value(c) ==
  IF c >= chUpA /\ c <= chUpA + 25 THEN c - chUpA
  ELSE IF c >= chLowA /\ c <= chLowA + 25 THEN c - chLowA + 26
  ELSE IF c >= ch0 /\ c <= ch0 + 9 THEN c - ch0 + 52
  ELSE IF c = 43 THEN 62
  ELSE IF c = 47 THEN 63
  ELSE -1

\* atob(str), the forgiving base64 decode: [threw, value], the value being
\* the characters 0..255 of the binary string
atob(str) ==
  LET s1 == SelectSeq(str, LAMBDA c : c \notin {9, 10, 12, 13, 32})
      s2 == IF Len(s1) % 4 = 0 /\ Len(s1) >= 2 /\ s1[Len(s1)] = 61 /\ s1[Len(s1) - 1] = 61
              THEN SubSeq(s1, 1, Len(s1) - 2)
            ELSE IF Len(s1) % 4 = 0 /\ Len(s1) >= 1 /\ s1[Len(s1)] = 61
              THEN SubSeq(s1, 1, Len(s1) - 1)
            ELSE s1
  IN IF Len(s2) % 4 = 1 \/ \E k \in 1..Len(s2) : Base64Value(s2[k]) = -1
     THEN [threw |-> TRUE, value |-> <<>>]
     ELSE [threw |-> FALSE,
           value |-> [j \in 1..((Len(s2) * 6) \div 8) |->
                        LET off == 8 * (j - 1)
                            a == (off \div 6) + 1
                            twelve == (Base64Value(s2[a]) * 64) + Base64Value(s2[a + 1])
                        IN (twelve \div (2 ^ (4 - (off % 6)))) % 256]]

RECURSIVE TiktokenLines(_, _)
\* the loop of loadTiktokenBpe over the lines: [threw, error, encoder]
TiktokenLines(encoder, lines) ==
  IF lines = <<>> THEN [threw |-> FALSE, error |-> "", encoder |-> encoder]
  ELSE IF Head(lines) = <<>> THEN TiktokenLines(encoder, Tail(lines))
  ELSE LET fields == SplitWs(Head(lines))
           token == atob(fields[1])
           rank == parseInt(IF Len(fields) >= 2 THEN fields[2] ELSE undefinedText)
       IN IF token.threw
          THEN [threw |-> TRUE, error |-> "InvalidCharacterError", encoder |-> <<>>]
          ELSE TiktokenLines(MapSet(encoder, _bytesToHex(token.value), rank), Tail(lines))

\* loadTiktokenBpe, from the bytes the fetch gave
loadTiktokenBpe(data) == TiktokenLines(<<>>, SplitOn(TextDecode(data), chLf))

\* streamLines: the lines of the text, the last one only if not empty
streamLines(str) ==
  LET ls == SplitOn(str, chLf)
  IN IF ls[Len(ls)] = <<>> THEN SubSeq(ls, 1, Len(ls) - 1) ELSE ls

\* the most merge lines loadClipData takes
maxMerges == 48894

RECURSIVE MergeLines(_, _, _)
\* the loop of loadClipData over the lines: merges after it
MergeLines(lines, lineNumber, merges) ==
  IF lineNumber > Len(lines) THEN merges
  ELSE LET trimmed == trim(lines[lineNumber])
           parts == SplitWs(trimmed)
           taken == IF lineNumber - 1 > 0 /\ Len(merges) < maxMerges /\ trimmed # <<>> /\ Len(parts) = 2
                    THEN Append(merges, parts[1] \o <<chSpace>> \o parts[2])
                    ELSE merges
       IN IF Len(taken) >= maxMerges THEN taken ELSE MergeLines(lines, lineNumber + 1, taken)

\* new BpeEncoding(encoder, specialTokens, regex), the checks included:
\* [threw, error, inst]
NewBpeEncoding(kind, encoder, specials, regexGlobal) ==
  IF ~regexGlobal
    THEN [threw |-> TRUE, error |-> "Regex for BPE pattern should have global flag set", inst |-> <<>>]
  ELSE IF DuplicateEncoderRank(encoder)
    THEN [threw |-> TRUE, error |-> "Duplicate rank in encoder", inst |-> <<>>]
  ELSE IF DuplicateSpecialRank(encoder, specials)
    THEN [threw |-> TRUE, error |-> "Duplicate rank in special tokens", inst |-> <<>>]
  ELSE [threw |-> FALSE, error |-> "", inst |-> BpeEncoding(kind, encoder, specials)]

\* "<|" name "|>"
Bracket(name) == <<chLt, chBar>> \o name \o <<chBar, chGt>>

\* the decimal digits of a number of six digits
Decimal6(n) == [k \in 1..6 |-> ch0 + ((n \div (10 ^ (6 - k))) % 10)]

\* "reserved_"
reservedPrefix == <<114, 101, 115, 101, 114, 118, 101, 100, 95>>

\* `<|reserved_${i}|>`
ReservedLiteral(i) == Bracket(reservedPrefix \o Decimal6(i))

\* "fim_prefix"
fimPrefix == <<102, 105, 109, 95, 112, 114, 101, 102, 105, 120>>
\* "fim_middle"
fimMiddle == <<102, 105, 109, 95, 109, 105, 100, 100, 108, 101>>
\* "fim_suffix"
fimSuffix == <<102, 105, 109, 95, 115, 117, 102, 102, 105, 120>>
\* "endofprompt"
endOfPrompt == <<101, 110, 100, 111, 102, 112, 114, 111, 109, 112, 116>>
\* "return"
returnName == <<114, 101, 116, 117, 114, 110>>
\* "constrain"
constrainName == <<99, 111, 110, 115, 116, 114, 97, 105, 110>>
\* "channel"
channelName == <<99, 104, 97, 110, 110, 101, 108>>
\* "start"
startName == <<115, 116, 97, 114, 116>>
\* "end"
endName == <<101, 110, 100>>
\* "message"
messageName == <<109, 101, 115, 115, 97, 103, 101>>
\* "call"
callName == <<99, 97, 108, 108>>

\* the special tokens getBpe passes to the constructor, in the order of
\* Object.entries
SpecialsOf(name) ==
  CASE name \in {"r50k_base", "p50k_base"} -> << <<eotLiteral, 50256>> >>
    [] name = "p50k_edit" ->
         << <<eotLiteral, 50256>>, <<Bracket(fimPrefix), 50281>>,
            <<Bracket(fimMiddle), 50282>>, <<Bracket(fimSuffix), 50283>> >>
    [] name = "cl100k_base" ->
         << <<eotLiteral, 100257>>, <<Bracket(fimPrefix), 100258>>,
            <<Bracket(fimMiddle), 100259>>, <<Bracket(fimSuffix), 100260>>,
            <<Bracket(endOfPrompt), 100276>> >>
    [] name = "o200k_base" -> << <<eotLiteral, 199999>>, <<Bracket(endOfPrompt), 200018>> >>
    [] OTHER ->
         << <<eotLiteral, 199999>>, <<sotLiteral, 199998>>,
            <<ReservedLiteral(200000), 200000>>, <<ReservedLiteral(200001), 200001>>,
            <<Bracket(returnName), 200002>>, <<Bracket(constrainName), 200003>>,
            <<ReservedLiteral(200004), 200004>>, <<Bracket(channelName), 200005>>,
            <<Bracket(startName), 200006>>, <<Bracket(endName), 200007>>,
            <<Bracket(messageName), 200008>>, <<ReservedLiteral(200009), 200009>>,
            <<ReservedLiteral(200010), 200010>>, <<ReservedLiteral(200011), 200011>>,
            <<Bracket(callName), 200012>> >>
           \o [k \in 1..(201088 - 200013) |-> <<ReservedLiteral(200012 + k), 200012 + k>>]

LoaderOfMut(name) == IF name \in {"clip", "CLIP"} THEN "clip" ELSE "tiktoken"

\* which loader getBpe calls for a name; "none" when it calls none
LoaderOf(name) ==
  IF name = "clip" THEN "clip"
  ELSE IF name \in {"r50k_base", "p50k_base", "p50k_edit", "cl100k_base", "o200k_base", "o200k_harmony"}
    THEN "tiktoken"
  ELSE "none"

\* the pattern getBpe passes for a name
PatternOf(name) ==
  IF name \in {"r50k_base", "p50k_base", "p50k_edit"} THEN "r50k"
  ELSE IF name = "cl100k_base" THEN "cl100k"
  ELSE "o200k"

\* the URL getBpe has its loader fetch
UrlOf(name) ==
  IF name = "clip" THEN "open_clip@v3.2.0/src/open_clip/bpe_simple_vocab_16e6.txt.gz"
  ELSE IF name = "r50k_base" THEN "gpt-tokenizer@3.0.1/data/r50k_base.tiktoken"
  ELSE IF name \in {"p50k_base", "p50k_edit"} THEN "gpt-tokenizer@3.0.1/data/p50k_base.tiktoken"
  ELSE IF name = "cl100k_base" THEN "gpt-tokenizer@3.0.1/data/cl100k_base.tiktoken"
  ELSE "gpt-tokenizer@3.0.1/data/o200k_base.tiktoken"

AwaitRejectedMut(err) == "LoadError"

\* what an await gives when the promise awaited rejects with err and there
\* is no try around it: the caller's promise rejects with err
AwaitRejected(err) == err

\* the rest of getBpe(name) for a tiktoken name, once the fetch gave data:
\* [kind, error, inst]
TiktokenResult(name, data) ==
  LET enc == loadTiktokenBpe(data)
  IN IF enc.threw THEN [kind |-> "rejected", error |-> enc.error, inst |-> <<>>]
     ELSE LET made == NewBpeEncoding("plain", enc.encoder, SpecialsOf(name), TRUE)
          IN IF made.threw THEN [kind |-> "rejected", error |-> made.error, inst |-> <<>>]
             ELSE [kind |-> "instance", error |-> "",
                   inst |-> [made.inst EXCEPT !.regex = PatternOf(name)]]

\* the rest of getBpe("clip"), once the fetch gave data: data is [gzip, text],
\* the text being what decompression gives when the bytes are gzip
ClipResult(data) ==
  IF ~data.gzip THEN [kind |-> "rejected", error |-> "TypeError", inst |-> <<>>]
  ELSE LET merges == MergeLines(streamLines(TextDecode(data.text)), 1, <<>>)
           encoder == ClipEncoder(merges)
           made == NewBpeEncoding("clip", encoder,
                                  << <<sotLiteral, Cardinality(DOMAIN encoder)>>,
                                     <<eotLiteral, Cardinality(DOMAIN encoder) + 1>> >>,
                                  TRUE)
       IN IF made.threw THEN [kind |-> "rejected", error |-> made.error, inst |-> <<>>]
          ELSE [kind |-> "instance", error |-> "", inst |-> made.inst]

\* the rest of loadSentencePiece, once the fetch gave data: data is
\* [proto, model], the model being what fromBinary reads when the bytes are a
\* ModelProto
SentencePieceResult(data) ==
  IF ~data.proto THEN [kind |-> "rejected", error |-> "ProtobufError", inst |-> <<>>]
  ELSE [kind |-> "instance", error |-> "", inst |-> Unigram(data.model)]

(***************************************************************************)
(* State.                                                                  *)
(***************************************************************************)
VARIABLES
  \* a direct call of bytePairEncode(piece, ranks)
  ranks,      \* the rank map passed in
  piece,      \* the hex-encoded fragment
  parts,      \* _bytePairMerge: parts
  minRank,    \* _bytePairMerge: minRank, <<rank, index>>
  tokens,     \* bytePairEncode: the returned list
  mpc,        \* position: "idle", "loop" (at the while test), "done"
  \* a BpeEncoding (or ClipEncoding) instance and the call in progress on it
  bpe,            \* the instance: its maps and pattern
  lastIndex,      \* this.specialRegex.lastIndex
  text,           \* encode: text after _beforeEncode
  allowedSpecial, \* encode: the argument, [given, has]
  start,          \* encode: start
  nextSpecial,    \* encode: nextSpecial, [index, match] or Null
  ret,            \* encode: ret
  bpc,            \* position: "idle", "scan" (at exec), "emit" (after the scan), "done"
  call,           \* the call in progress or just finished: [op, text, toks]
  out,            \* what the finished call returned: [threw, value]
  \* a Unigram instance and the call in progress on it
  uModel,         \* the ModelProto given to the constructor
  uni,            \* the instance: trie, decoder, byteFallback, ids, flags
  uText,          \* encode: text after #normalize
  uBest,          \* encode: best
  uPrev,          \* encode: prev
  uI,             \* encode: i of the forward loop
  uTokens,        \* encode: tokens of the backtrack
  uPos,           \* encode: pos of the backtrack
  upc,            \* position: "idle", "forward", "backtrack", "done"
  uCall,          \* the call in progress or just finished: [op, text, toks]
  uOut,           \* what the finished call returned
  \* a call of getBpe, of loadSentencePiece or of the BpeEncoding constructor
  lpc,            \* position: "idle", "fetch" (awaiting cachedFetch), "done"
  lCall,          \* the call in progress or just finished: [fn, name]
  lUrl,           \* the URL given to cachedFetch
  lFetches,       \* calls of cachedFetch made by the call
  lFetched,       \* how the fetch ended: "", "pending", "data", or the error
  lData,          \* what the fetch gave, or the arguments of the constructor
  lOut,           \* the outcome: [kind, error, inst]
  \* a run of streamLines(stream) and the consumer's for await over it
  sText,          \* the whole text the stream carries
  sChunks,        \* the chunks reader.read() has still to give
  sBuffer,        \* streamLines: buffer
  sPending,       \* streamLines: the lines of the for loop not yet yielded
  sYielded,       \* the lines the consumer has received
  spc             \* position: "idle", "read", "yield", "done"

mergeVars == <<ranks, piece, parts, minRank, tokens, mpc>>
bpeVars == <<bpe, lastIndex, text, allowedSpecial, start, nextSpecial, ret, bpc, call, out>>

uniVars == <<uModel, uni, uText, uBest, uPrev, uI, uTokens, uPos, upc, uCall, uOut>>

loadVars == <<lpc, lCall, lUrl, lFetches, lFetched, lData, lOut>>

streamVars == <<sText, sChunks, sBuffer, sPending, sYielded, spc>>

vars == <<mergeVars, bpeVars, uniVars, loadVars, streamVars>>

\* the variables a component leaves alone
notMerge == <<bpeVars, uniVars, loadVars, streamVars>>
notBpe == <<mergeVars, uniVars, loadVars, streamVars>>
notUni == <<mergeVars, bpeVars, loadVars, streamVars>>
notLoad == <<mergeVars, bpeVars, uniVars, streamVars>>
notStream == <<mergeVars, bpeVars, uniVars, loadVars>>

NoCall == [op |-> "none", text |-> <<>>, toks |-> <<>>]
NoOut == [threw |-> FALSE, value |-> <<>>]
Omitted == [given |-> FALSE, has |-> {}]

\* no bytePairEncode call is being followed
MergeParked ==
  /\ ranks = <<>>
  /\ piece = <<>>
  /\ parts = <<>>
  /\ minRank = <<RANK_MAX, -1>>
  /\ tokens = <<>>
  /\ mpc = "idle"

\* no BpeEncoding instance is being followed
BpeParked ==
  /\ bpe = <<>>
  /\ lastIndex = 0
  /\ text = <<>>
  /\ allowedSpecial = Omitted
  /\ start = 0
  /\ nextSpecial = Null
  /\ ret = <<>>
  /\ bpc = "idle"
  /\ call = NoCall
  /\ out = NoOut

\* no Unigram instance is being followed
UniParked ==
  /\ uModel = <<>>
  /\ uni = <<>>
  /\ uText = <<>>
  /\ uBest = <<>>
  /\ uPrev = <<>>
  /\ uI = 0
  /\ uTokens = <<>>
  /\ uPos = 0
  /\ upc = "idle"
  /\ uCall = NoCall
  /\ uOut = <<>>

\* no stream is being read
StreamParked ==
  /\ sText = <<>>
  /\ sChunks = <<>>
  /\ sBuffer = <<>>
  /\ sPending = <<>>
  /\ sYielded = <<>>
  /\ spc = "idle"

\* no loader call is being followed
LoadParked ==
  /\ lpc = "idle"
  /\ lCall = [fn |-> "none", name |-> ""]
  /\ lUrl = ""
  /\ lFetches = 0
  /\ lFetched = ""
  /\ lData = <<>>
  /\ lOut = [kind |-> "none", error |-> "", inst |-> <<>>]

(***************************************************************************)
(* bytePairEncode, one action per loop iteration.                          *)
(***************************************************************************)
MergeBytes == {chLowA, chLowB, chLowC}

\* rank maps handed to the merge engine: every single byte, and any choice of
\* ranks (equal ranks included) for a few longer keys
MergeRankChoices == {Undefined, 300, 301}
MergeRankMaps ==
  { MapOf({<<HexOf(<<b>>), b>> : b \in MergeBytes}
          \cup {p \in {<<HexOf(<<chLowA, chLowA>>), raa>>,
                       <<HexOf(<<chLowA, chLowB>>), rab>>,
                       <<HexOf(<<chLowB, chLowC>>), rbc>>,
                       <<HexOf(<<chLowA, chLowB, chLowC>>), rabc>>} : p[2] # Undefined})
    : raa \in MergeRankChoices, rab \in MergeRankChoices,
      rbc \in MergeRankChoices, rabc \in {Undefined, 302} }

MergePieces == SeqsUpTo(MergeBytes, MaxPiece) \ {<<>>}

InitMerge ==
  /\ ranks \in MergeRankMaps
  /\ piece = <<>>
  /\ parts = <<>>
  /\ minRank = <<RANK_MAX, -1>>
  /\ tokens = <<>>
  /\ mpc = "idle"
  /\ BpeParked
  /\ UniParked
  /\ LoadParked
  /\ StreamParked

\* bytePairEncode(piece, ranks) is called: the early return for one byte, or
\* the first loop of _bytePairMerge
CallBytePairEncode ==
  /\ mpc = "idle"
  /\ \E p \in MergePieces :
       /\ piece' = HexOf(p)
       /\ IF Len(piece') \div 2 = 1
          THEN /\ tokens' = <<GetOrUndefined(ranks, piece')>>
               /\ mpc' = "done"
               /\ UNCHANGED <<parts, minRank>>
          ELSE /\ parts' = InitialParts(ranks, piece')
               /\ minRank' = InitialMinRank(ranks, piece')
               /\ tokens' = <<>>
               /\ mpc' = "loop"
  /\ UNCHANGED <<ranks, notMerge>>

\* one iteration of while (minRank[0] !== RANK_MAX)
MergeIteration ==
  /\ mpc = "loop"
  /\ minRank[1] # RANK_MAX
  /\ parts' = MergeParts(ranks, piece, parts, minRank[2])
  /\ minRank' = Rescan(parts')
  /\ UNCHANGED <<ranks, piece, tokens, mpc, notMerge>>

\* the loop ends; bytePairEncode maps the parts to tokens and returns
MergeReturn ==
  /\ mpc = "loop"
  /\ minRank[1] = RANK_MAX
  /\ tokens' = PartTokens(ranks, piece, parts)
  /\ mpc' = "done"
  /\ UNCHANGED <<ranks, piece, parts, minRank, notMerge>>

\* the caller takes the result
MergeDone ==
  /\ mpc = "done"
  /\ piece' = <<>>
  /\ parts' = <<>>
  /\ minRank' = <<RANK_MAX, -1>>
  /\ tokens' = <<>>
  /\ mpc' = "idle"
  /\ UNCHANGED <<ranks, notMerge>>

NextMerge == CallBytePairEncode \/ MergeIteration \/ MergeReturn \/ MergeDone

SpecMerge == InitMerge /\ [][NextMerge]_vars

\* the stepwise run and the function agree on the result
MergeRunsAgree == mpc = "done" => tokens = bytePairEncode(piece, ranks)

(***************************************************************************)
(* BpeEncoding: instances and inputs of the model.                         *)
(***************************************************************************)
\* longest text given to a plain encoding
MaxText == 3
\* longest token list given to decode
MaxTokens == 2
\* most repetitions of a unit in a text given to the CLIP encoding
MaxRep == 16

\* every single byte, ranked by its value
ByteEncoder == MapOf({<<_bytesToHex(<<b>>), b>> : b \in 0..255})

\* a vocabulary with merges on top of the single bytes
MergedEncoder ==
  MapOf({<<_bytesToHex(<<b>>), b>> : b \in 0..255}
        \cup { <<_bytesToHex(<<97, 97>>), 256>>,
               <<_bytesToHex(<<32, 97>>), 257>>,
               <<_bytesToHex(<<60, 97>>), 258>>,
               <<_bytesToHex(<<32, 97, 97>>), 259>>,
               <<_bytesToHex(<<240, 159>>), 260>>,
               <<_bytesToHex(<<240, 159, 152, 128>>), 261>>,
               <<_bytesToHex(<<239, 187>>), 262>> })

\* special tokens of the plain instances: "<a" and "a<"
PlainSpecials == << <<(<<chLt, chLowA>>), 300>>, <<(<<chLowA, chLt>>), 301>> >>

PlainInstances ==
  { BpeEncoding("plain", ByteEncoder, PlainSpecials),
    BpeEncoding("plain", MergedEncoder, PlainSpecials) }

\* merge lines of the CLIP model vocabulary: "a a</w>", "< |", "| ></w>"
ClipMerges ==
  << <<97, 32, 97>> \o EndOfWord,
     <<chLt, 32, chBar>>,
     <<chBar, 32, chGt>> \o EndOfWord >>

ClipInstances == { ClipEncoding(ClipEncoder(ClipMerges)) }

PlainAlphabet == {chLowA, chSpace, chLt, chHi, chLo, chBom}
PlainTexts == SeqsUpTo(PlainAlphabet, MaxText)

\* unit.repeat(k)
Rep(unit, k) == [i \in 1..(k * Len(unit)) |-> unit[((i - 1) % Len(unit)) + 1]]

ClipPrefixes ==
  { <<>>, <<chUpA>>, <<chLowA, ch1>>, <<chSpace, chTab, chLf>>, <<chNbsp>>, <<chBang>>,
    <<95>>, <<chHi, chLo>>,
    eotLiteral, sotLiteral }
\* "!!!!! " is one match of the pattern and five tokens
ClipUnits ==
  { <<ch1>>, <<chLowA, chSpace>>, <<chSpace>>, <<chTab>>,
    <<chBang, chBang, chBang, chBang, chBang, chSpace>> }
ClipReps == (0..2) \cup ((MaxRep - 2)..MaxRep)
ClipTexts == { pre \o Rep(unit, k) : pre \in ClipPrefixes, unit \in ClipUnits, k \in ClipReps }

TextsFor(inst) == IF inst.kind = "clip" THEN ClipTexts ELSE PlainTexts

\* allowedSpecial arguments: omitted, or a proper subset of the literals
\* (encodeWithSpecialTokens passes them all)
AllowedFor(inst) ==
  {Omitted} \cup {[given |-> TRUE, has |-> S] : S \in (SUBSET specialTokens(inst)) \ {specialTokens(inst)}}

\* ranks given to decode: ordinary, special, padding and unknown ones
TokensFor(inst) ==
  IF inst.kind = "clip"
  THEN {0, 64, 320, Cardinality(DOMAIN inst.encoder), Cardinality(DOMAIN inst.encoder) + 1, 9999}
  ELSE {97, 239, 187, 191, 256, 300, 301, 999}
TokenListsFor(inst) == SeqsUpTo(TokensFor(inst), MaxTokens)

InitBpe ==
  /\ bpe \in PlainInstances
  /\ lastIndex = 0
  /\ text = <<>>
  /\ allowedSpecial = Omitted
  /\ start = 0
  /\ nextSpecial = Null
  /\ ret = <<>>
  /\ bpc = "idle"
  /\ call = NoCall
  /\ out = NoOut
  /\ MergeParked
  /\ UniParked
  /\ LoadParked
  /\ StreamParked

InitClip ==
  /\ bpe \in ClipInstances
  /\ lastIndex = 0
  /\ text = <<>>
  /\ allowedSpecial = Omitted
  /\ start = 0
  /\ nextSpecial = Null
  /\ ret = <<>>
  /\ bpc = "idle"
  /\ call = NoCall
  /\ out = NoOut
  /\ MergeParked
  /\ UniParked
  /\ LoadParked
  /\ StreamParked

(***************************************************************************)
(* BpeEncoding.encode, one action per exec of the special-token scan and   *)
(* one per fragment; decode and decodeBytes as single steps.               *)
(***************************************************************************)
\* the entry of encode: _beforeEncode, ret = [], start = 0, and the first
\* this.specialRegex.lastIndex = start
BeginEncode(opName, t, allowed) ==
  /\ call' = [op |-> opName, text |-> t, toks |-> <<>>]
  /\ text' = _beforeEncode(bpe, t)
  /\ allowedSpecial' = allowed
  /\ ret' = <<>>
  /\ start' = 0
  /\ lastIndex' = 0
  /\ nextSpecial' = Null
  /\ out' = NoOut
  /\ bpc' = "scan"
  /\ UNCHANGED <<bpe, notBpe>>

\* encode(text, allowedSpecial)
Encode ==
  /\ bpc = "idle"
  /\ \E t \in TextsFor(bpe), allowed \in AllowedFor(bpe) : BeginEncode("encode", t, allowed)

\* encodeWithSpecialTokens(text)
EncodeWithSpecialTokens ==
  /\ bpc = "idle"
  /\ \E t \in TextsFor(bpe) :
       BeginEncode("encodeWithSpecialTokens", t, [given |-> TRUE, has |-> specialTokens(bpe)])

\* one pass of the inner loop: exec, then stop on no match or an allowed
\* match, else move lastIndex one past the start of the match
ScanExec ==
  /\ bpc = "scan"
  /\ LET m == SpecialExec(bpe.specialTokensEncoder, text, lastIndex) IN
       /\ nextSpecial' = m
       /\ IF m = Null
          THEN lastIndex' = 0 /\ bpc' = "emit"
          ELSE IF AllowedHas(allowedSpecial, m.match)
          THEN lastIndex' = m.index + Len(m.match) /\ bpc' = "emit"
          ELSE lastIndex' = m.index + 1 /\ bpc' = "scan"
  /\ UNCHANGED <<bpe, text, allowedSpecial, start, ret, call, out, notBpe>>

EmitFragmentMut ==
  /\ bpc = "emit"
  /\ LET end == IF nextSpecial # Null THEN nextSpecial.index ELSE Len(text)
         body == ret \o EncodeFragment(bpe, text, start, end)
     IN IF nextSpecial # Null
        THEN /\ ret' = Append(body, SpecialRank(bpe, nextSpecial.match))
             /\ start' = nextSpecial.index + ExecArrayLength(nextSpecial)
             /\ lastIndex' = lastIndex
             /\ bpc' = "scan"
             /\ UNCHANGED out
        ELSE /\ ret' = body
             /\ out' = [threw |-> FALSE, value |-> _afterEncode(bpe, body)]
             /\ bpc' = "done"
             /\ UNCHANGED <<start, lastIndex>>
  /\ UNCHANGED <<bpe, text, allowedSpecial, nextSpecial, call, notBpe>>

\* the fragment [start, end) is encoded; then the special token is pushed and
\* the outer loop goes round, or encode returns _afterEncode(ret)
EmitFragment ==
  /\ bpc = "emit"
  /\ LET end == IF nextSpecial # Null THEN nextSpecial.index ELSE Len(text)
         body == ret \o EncodeFragment(bpe, text, start, end)
     IN IF nextSpecial # Null
        THEN /\ ret' = Append(body, SpecialRank(bpe, nextSpecial.match))
             /\ start' = nextSpecial.index + ExecArrayLength(nextSpecial)
             /\ lastIndex' = start'
             /\ bpc' = "scan"
             /\ UNCHANGED out
        ELSE /\ ret' = body
             /\ out' = [threw |-> FALSE, value |-> _afterEncode(bpe, body)]
             /\ bpc' = "done"
             /\ UNCHANGED <<start, lastIndex>>
  /\ UNCHANGED <<bpe, text, allowedSpecial, nextSpecial, call, notBpe>>

\* decode(tokens)
Decode ==
  /\ bpc = "idle"
  /\ \E toks \in TokenListsFor(bpe) :
       /\ call' = [op |-> "decode", text |-> <<>>, toks |-> toks]
       /\ out' = decode(bpe, toks)
  /\ bpc' = "done"
  /\ UNCHANGED <<bpe, lastIndex, text, allowedSpecial, start, nextSpecial, ret, notBpe>>

\* decodeBytes(tokens)
DecodeBytes ==
  /\ bpc = "idle"
  /\ \E toks \in TokenListsFor(bpe) :
       /\ call' = [op |-> "decodeBytes", text |-> <<>>, toks |-> toks]
       /\ out' = decodeBytes(bpe, toks)
  /\ bpc' = "done"
  /\ UNCHANGED <<bpe, lastIndex, text, allowedSpecial, start, nextSpecial, ret, notBpe>>

\* specialTokens()
SpecialTokens ==
  /\ bpc = "idle"
  /\ call' = [op |-> "specialTokens", text |-> <<>>, toks |-> <<>>]
  /\ out' = [threw |-> FALSE, value |-> specialTokens(bpe)]
  /\ bpc' = "done"
  /\ UNCHANGED <<bpe, lastIndex, text, allowedSpecial, start, nextSpecial, ret, notBpe>>

\* the caller takes the result; the locals of the call are gone, the
\* instance and its specialRegex.lastIndex stay
BpeReturn ==
  /\ bpc = "done"
  /\ bpc' = "idle"
  /\ text' = <<>>
  /\ allowedSpecial' = Omitted
  /\ start' = 0
  /\ nextSpecial' = Null
  /\ ret' = <<>>
  /\ call' = NoCall
  /\ out' = NoOut
  /\ UNCHANGED <<bpe, lastIndex, notBpe>>

NextBpe ==
  \/ Encode
  \/ EncodeWithSpecialTokens
  \/ ScanExec
  \/ EmitFragment
  \/ Decode
  \/ DecodeBytes
  \/ SpecialTokens
  \/ BpeReturn

SpecBpe == InitBpe /\ [][NextBpe]_vars
SpecClip == InitClip /\ [][NextBpe]_vars

(***************************************************************************)
(* Unigram: instances and inputs of the model.                             *)
(***************************************************************************)
\* longest text given to Unigram.encode
MaxUniText == 2
\* longest token list given to Unigram.decode
MaxUniTokens == 2

\* "<0xHH>" as SentencePiece writes it, with upper-case digits
BytePiece(b) ==
  <<chLt, ch0, chLowX>>
    \o [k \in 1..2 |-> LET d == IF k = 1 THEN b \div 16 ELSE b % 16
                       IN IF d < 10 THEN ch0 + d ELSE chUpA + (d - 10)]
    \o <<chGt>>

\* <unk>, <s>, </s> and the 256 byte pieces
BasePieces ==
  << [piece |-> <<chLt, 117, 110, 107, chGt>>, score |-> 0, type |-> "UNKNOWN"],
     [piece |-> <<chLt, chLowS, chGt>>, score |-> 0, type |-> "CONTROL"],
     [piece |-> <<chLt, 47, chLowS, chGt>>, score |-> 0, type |-> "CONTROL"] >>
    \o [k \in 1..256 |-> [piece |-> BytePiece(k - 1), score |-> 0, type |-> "BYTE"]]

\* the pieces a vocabulary may hold on top, each with the scores it may have
\* (0 stands for "not in the vocabulary")
CandidatePieces ==
  << <<(<<chLowA>>), {0, -2}>>,
     <<(<<chLowB>>), {0, -1}>>,
     <<(<<chLowA, chLowB>>), {0, -5, -2}>>,
     <<(<<SPIECE_UNDERLINE>>), {0, -1}>>,
     <<(<<chHi, chLo>>), {0, -1}>> >>

\* the pieces chosen by a tuple of scores, in the order of CandidatePieces
ChosenPieces(scores) ==
  LET ks == SelectSeq([k \in 1..Len(CandidatePieces) |-> k], LAMBDA k : scores[k] # 0)
  IN [i \in 1..Len(ks) |->
       [piece |-> CandidatePieces[ks[i]][1], score |-> scores[ks[i]], type |-> "NORMAL"]]

UniModels ==
  { [pieces |-> BasePieces \o ChosenPieces(scores), addDummyPrefix |-> f, removeExtraWhitespaces |-> g]
    : scores \in {sc \in [1..Len(CandidatePieces) -> {0, -1, -2, -5}] :
                    \A k \in 1..Len(CandidatePieces) : sc[k] \in CandidatePieces[k][2]},
      f \in BOOLEAN, g \in BOOLEAN }

\* a piece list with a repeated string, every type, BYTE pieces that do not
\* have the form <0xHH> or share their byte, and a NORMAL piece of that form
OddPieces ==
  << [piece |-> <<chLt, 117, 110, 107, chGt>>, score |-> 0, type |-> "UNKNOWN"],
     [piece |-> <<chLowA>>, score |-> -2, type |-> "NORMAL"],
     [piece |-> <<chLowA>>, score |-> -1, type |-> "NORMAL"],
     [piece |-> <<chLowB>>, score |-> -1, type |-> "USER_DEFINED"],
     [piece |-> <<chLowA, chLowB>>, score |-> -1, type |-> "UNUSED"],
     [piece |-> <<chLowB>>, score |-> 0, type |-> "CONTROL"],
     [piece |-> BytePiece(97), score |-> 0, type |-> "BYTE"],
     [piece |-> BytePiece(226), score |-> 0, type |-> "BYTE"],
     [piece |-> <<chLt, ch0, chLowX, 101, 50, chGt>>, score |-> 0, type |-> "BYTE"],
     [piece |-> <<chLt, ch0, chLowX, 54, 103, chGt>>, score |-> 0, type |-> "BYTE"],
     [piece |-> BytePiece(98), score |-> -1, type |-> "NORMAL"],
     [piece |-> BytePiece(32), score |-> 0, type |-> "CONTROL"] >>

OddModels ==
  { [pieces |-> OddPieces, addDummyPrefix |-> f, removeExtraWhitespaces |-> f] : f \in BOOLEAN }

UniAlphabet == {chLowA, chLowB, chSpace, SPIECE_UNDERLINE, chHi, chLo}
UniTexts == SeqsUpTo(UniAlphabet, MaxUniText)

\* ids given to decode: <unk>, bytes, pieces, and one outside the vocabulary
UniTokenChoices == {0, 3 + 97, 3 + 226, 3 + 150, 259, 260, 9999}
UniTokenLists == SeqsUpTo(UniTokenChoices, MaxUniTokens)

InitUnigram ==
  /\ uModel \in UniModels \cup OddModels
  /\ uni = Unigram(uModel)
  /\ uText = <<>>
  /\ uBest = <<>>
  /\ uPrev = <<>>
  /\ uI = 0
  /\ uTokens = <<>>
  /\ uPos = 0
  /\ upc = "idle"
  /\ uCall = NoCall
  /\ uOut = <<>>
  /\ MergeParked
  /\ BpeParked
  /\ LoadParked
  /\ StreamParked

(***************************************************************************)
(* Unigram.encode, one action per iteration of its two loops; decode as a  *)
(* single step.                                                            *)
(***************************************************************************)
\* encode(text): #normalize, the early return, and the arrays best and prev
UniEncode ==
  /\ upc = "idle"
  /\ \E t \in UniTexts :
       /\ uCall' = [op |-> "encode", text |-> t, toks |-> <<>>]
       /\ uText' = normalize(uni, t)
       /\ IF Len(uText') = 0
          THEN /\ uOut' = <<>>
               /\ upc' = "done"
               /\ uBest' = <<>>
               /\ uPrev' = <<>>
          ELSE /\ uOut' = <<>>
               /\ upc' = "forward"
               /\ uBest' = InitialBest(Len(uText'))
               /\ uPrev' = InitialPrev(Len(uText'))
  /\ uI' = 0
  /\ uTokens' = <<>>
  /\ uPos' = 0
  /\ UNCHANGED <<uModel, uni, notUni>>

\* one iteration of for (let i = 0; i < n; i++)
UniForward ==
  /\ upc = "forward"
  /\ uI < Len(uText)
  /\ LET st == ForwardStep(uni, uText, [best |-> uBest, prev |-> uPrev], uI) IN
       /\ uBest' = st.best
       /\ uPrev' = st.prev
  /\ uI' = uI + 1
  /\ UNCHANGED <<uModel, uni, uText, uTokens, uPos, upc, uCall, uOut, notUni>>

\* the forward loop ends: tokens = [], pos = n
UniForwardEnd ==
  /\ upc = "forward"
  /\ uI >= Len(uText)
  /\ uTokens' = <<>>
  /\ uPos' = Len(uText)
  /\ upc' = "backtrack"
  /\ UNCHANGED <<uModel, uni, uText, uBest, uPrev, uI, uCall, uOut, notUni>>

\* one iteration of while (pos > 0)
UniBacktrack ==
  /\ upc = "backtrack"
  /\ uPos > 0
  /\ LET b == BacktrackStep(uni, uText, uPrev, uTokens, uPos) IN
       /\ uTokens' = b.tokens
       /\ uPos' = b.pos
  /\ UNCHANGED <<uModel, uni, uText, uBest, uPrev, uI, upc, uCall, uOut, notUni>>

\* the backtrack ends: tokens.reverse() is returned
UniBacktrackEnd ==
  /\ upc = "backtrack"
  /\ uPos <= 0
  /\ uOut' = Reverse(uTokens)
  /\ upc' = "done"
  /\ UNCHANGED <<uModel, uni, uText, uBest, uPrev, uI, uTokens, uPos, uCall, notUni>>

\* decode(tokens)
UniDecode ==
  /\ upc = "idle"
  /\ \E toks \in UniTokenLists :
       /\ uCall' = [op |-> "decode", text |-> <<>>, toks |-> toks]
       /\ uOut' = UnigramDecode(uni, toks)
  /\ upc' = "done"
  /\ UNCHANGED <<uModel, uni, uText, uBest, uPrev, uI, uTokens, uPos, notUni>>

\* the caller takes the result
UniReturn ==
  /\ upc = "done"
  /\ upc' = "idle"
  /\ uText' = <<>>
  /\ uBest' = <<>>
  /\ uPrev' = <<>>
  /\ uI' = 0
  /\ uTokens' = <<>>
  /\ uPos' = 0
  /\ uCall' = NoCall
  /\ uOut' = <<>>
  /\ UNCHANGED <<uModel, uni, notUni>>

NextUnigram ==
  \/ UniEncode
  \/ UniForward
  \/ UniForwardEnd
  \/ UniBacktrack
  \/ UniBacktrackEnd
  \/ UniDecode
  \/ UniReturn

SpecUnigram == InitUnigram /\ [][NextUnigram]_vars

\* the stepwise run and the function agree on the result
UniRunsAgree == (upc = "done" /\ uCall.op = "encode") => uOut = UnigramEncode(uni, uCall.text)

(***************************************************************************)
(* One BpeEncoding and one Unigram instance in use by the same program:    *)
(* the calls are synchronous, so one call ends before the next begins.     *)
(***************************************************************************)
SharedInstances == PlainInstances

SharedModels ==
  { [pieces |-> BasePieces \o ChosenPieces(<<-2, -1, -5, -1, -1>>),
     addDummyPrefix |-> f, removeExtraWhitespaces |-> f] : f \in BOOLEAN }

InitShared ==
  /\ bpe \in SharedInstances
  /\ lastIndex = 0
  /\ text = <<>>
  /\ allowedSpecial = Omitted
  /\ start = 0
  /\ nextSpecial = Null
  /\ ret = <<>>
  /\ bpc = "idle"
  /\ call = NoCall
  /\ out = NoOut
  /\ uModel \in SharedModels
  /\ uni = Unigram(uModel)
  /\ uText = <<>>
  /\ uBest = <<>>
  /\ uPrev = <<>>
  /\ uI = 0
  /\ uTokens = <<>>
  /\ uPos = 0
  /\ upc = "idle"
  /\ uCall = NoCall
  /\ uOut = <<>>
  /\ MergeParked
  /\ LoadParked
  /\ StreamParked

\* a step of a call on the BpeEncoding while no call on the Unigram is under
\* way, or a step of a call on the Unigram while no call on the BpeEncoding is
NextShared ==
  \/ upc = "idle" /\ Encode
  \/ upc = "idle" /\ EncodeWithSpecialTokens
  \/ upc = "idle" /\ ScanExec
  \/ upc = "idle" /\ EmitFragment
  \/ upc = "idle" /\ Decode
  \/ upc = "idle" /\ DecodeBytes
  \/ upc = "idle" /\ SpecialTokens
  \/ upc = "idle" /\ BpeReturn
  \/ bpc = "idle" /\ UniEncode
  \/ bpc = "idle" /\ UniForward
  \/ bpc = "idle" /\ UniForwardEnd
  \/ bpc = "idle" /\ UniBacktrack
  \/ bpc = "idle" /\ UniBacktrackEnd
  \/ bpc = "idle" /\ UniDecode
  \/ bpc = "idle" /\ UniReturn

SpecShared == InitShared /\ [][NextShared]_vars

(***************************************************************************)
(* The loaders, one action per call, per outcome of the fetch, and per     *)
(* direct call of the constructor.                                         *)
(***************************************************************************)
\* names given to getBpe: the seven it knows, and others
BpeNames ==
  {"clip", "r50k_base", "p50k_base", "p50k_edit", "cl100k_base", "o200k_base", "o200k_harmony",
   "gpt2", "CLIP", ""}

\* URLs given to loadSentencePiece
SentencePieceUrls == {"tokenizer.model"}

\* errors the fetcher may reject with
FetchErrors == {"NetworkError", "AbortError"}

\* .tiktoken files the fetch may give, as bytes: two entries; two entries of
\* one rank; a line without rank; a rank that is no number; an empty line,
\* and a rank with a letter after the digits; a negative rank; the empty
\* file; the rank of a special token; a token that is not base64; one token
\* twice; two lines without rank
TiktokenFiles ==
  { <<89, 81, 61, 61, 32, 48, 10, 89, 103, 61, 61, 32, 49, 10>>,
    <<89, 81, 61, 61, 32, 48, 10, 89, 103, 61, 61, 32, 48, 10>>,
    <<89, 81, 61, 61, 32, 48, 10, 89, 103, 61, 61, 10>>,
    <<89, 81, 61, 61, 32, 48, 10, 89, 103, 61, 61, 32, 120>>,
    <<89, 81, 61, 61, 32, 48, 10, 10, 89, 103, 61, 61, 32, 49, 120>>,
    <<89, 81, 61, 61, 32, 45, 49, 10>>,
    <<>>,
    <<89, 81, 61, 61, 32, 53, 48, 50, 53, 54, 10>>,
    <<89, 32, 48, 10>>,
    <<89, 81, 61, 61, 32, 48, 10, 89, 81, 61, 61, 32, 49, 10>>,
    <<89, 81, 61, 61, 10, 89, 103, 61, 61, 10>> }

\* texts of the CLIP vocabulary file the fetch may give: three merge lines;
\* the header only; one line twice, then another; one line twice; blank
\* lines and lines of one or three parts; two lines of one key; a line whose
\* key is a seed key, then another; no header
ClipFileTexts ==
  { <<35, 118, 101, 114, 115, 105, 111, 110, 58, 32, 48, 46, 50, 10, 97, 32, 97, 60, 47, 119, 62, 10, 60, 32, 124, 10, 124, 32, 62, 60, 47, 119, 62, 10>>,
    <<35, 118, 101, 114, 115, 105, 111, 110, 58, 32, 48, 46, 50, 10>>,
    <<35, 118, 101, 114, 115, 105, 111, 110, 58, 32, 48, 46, 50, 10, 97, 32, 98, 10, 97, 32, 98, 10, 98, 32, 99, 10>>,
    <<35, 118, 101, 114, 115, 105, 111, 110, 58, 32, 48, 46, 50, 10, 97, 32, 98, 10, 97, 32, 98>>,
    <<35, 118, 101, 114, 115, 105, 111, 110, 58, 32, 48, 46, 50, 10, 97, 32, 98, 10, 10, 32, 32, 10, 98, 32, 32, 99, 32, 10, 120, 32, 121, 32, 122, 10, 113, 10>>,
    <<35, 118, 101, 114, 115, 105, 111, 110, 58, 32, 48, 46, 50, 10, 97, 98, 32, 99, 10, 97, 32, 98, 99, 10>>,
    <<35, 118, 101, 114, 115, 105, 111, 110, 58, 32, 48, 46, 50, 10, 33, 32, 60, 47, 119, 62, 10, 98, 32, 99, 10>>,
    <<97, 32, 98, 10, 98, 32, 99, 10>> }

\* what the fetch may give for the CLIP file: gzip of a text, or other bytes
ClipFiles ==
  {[gzip |-> FALSE, text |-> <<>>]} \cup {[gzip |-> TRUE, text |-> TextEncode(t)] : t \in ClipFileTexts}

\* what the fetch may give for a SentencePiece model: a ModelProto, or other
\* bytes
SentencePieceFiles ==
  {[proto |-> FALSE, model |-> <<>>]}
    \cup {[proto |-> TRUE,
           model |-> [pieces |-> BasePieces \o ChosenPieces(<<-2, -1, -5, -1, -1>>),
                      addDummyPrefix |-> f, removeExtraWhitespaces |-> g]] : f \in BOOLEAN, g \in BOOLEAN}

\* encoders given to the constructor directly: ranks apart, shared, NaN
CtorEncoders ==
  { MapOf(ps) : ps \in { {},
                         {<<HexOf(<<chLowA>>), 0>>},
                         {<<HexOf(<<chLowA>>), 0>>, <<HexOf(<<chLowB>>), 1>>},
                         {<<HexOf(<<chLowA>>), 0>>, <<HexOf(<<chLowB>>), 0>>},
                         {<<HexOf(<<chLowA>>), 0>>, <<HexOf(<<chLowB>>), 1>>, <<HexOf(<<chLowC>>), 1>>},
                         {<<HexOf(<<chLowA>>), NaN>>},
                         {<<HexOf(<<chLowA>>), NaN>>, <<HexOf(<<chLowB>>), NaN>>} } }

\* special tokens given to the constructor directly
CtorSpecials ==
  { <<>>,
    << <<(<<chLt, chLowA>>), 300>> >>,
    << <<(<<chLt, chLowA>>), 300>>, <<(<<chLowA, chLt>>), 301>> >>,
    << <<(<<chLt, chLowA>>), 300>>, <<(<<chLowA, chLt>>), 300>> >>,
    << <<(<<chLt, chLowA>>), 0>> >>,
    << <<(<<chLt, chLowA>>), 300>>, <<(<<chLowA, chLt>>), 1>> >>,
    << <<(<<chLt, chLowA>>), NaN>> >> }

NoLoad == [kind |-> "none", error |-> "", inst |-> <<>>]
NoLoadCall == [fn |-> "none", name |-> ""]

InitLoad ==
  /\ lpc = "idle"
  /\ lCall = NoLoadCall
  /\ lUrl = ""
  /\ lFetches = 0
  /\ lFetched = ""
  /\ lData = <<>>
  /\ lOut = NoLoad
  /\ MergeParked
  /\ BpeParked
  /\ UniParked
  /\ StreamParked

\* getBpe(name): the unknown name is rejected; else the loader is called and
\* awaits cachedFetch(url)
GetBpe ==
  /\ lpc = "idle"
  /\ \E name \in BpeNames :
       /\ lCall' = [fn |-> "getBpe", name |-> name]
       /\ IF LoaderOf(name) = "none"
          THEN /\ lOut' = [kind |-> "rejected", error |-> "Unsupported tokenizer", inst |-> <<>>]
               /\ lpc' = "done"
               /\ lUrl' = ""
               /\ lFetches' = 0
               /\ lFetched' = ""
          ELSE /\ lOut' = NoLoad
               /\ lpc' = "fetch"
               /\ lUrl' = UrlOf(name)
               /\ lFetches' = 1
               /\ lFetched' = "pending"
  /\ lData' = <<>>
  /\ UNCHANGED notLoad

\* loadSentencePiece(url) awaits cachedFetch(url)
LoadSentencePiece ==
  /\ lpc = "idle"
  /\ \E url \in SentencePieceUrls :
       /\ lCall' = [fn |-> "loadSentencePiece", name |-> url]
       /\ lUrl' = url
  /\ lFetches' = 1
  /\ lFetched' = "pending"
  /\ lData' = <<>>
  /\ lOut' = NoLoad
  /\ lpc' = "fetch"
  /\ UNCHANGED notLoad

\* the fetch gives data: the loader reads it and the instance is made, or
\* the call is rejected with what was thrown
FetchResolve ==
  /\ lpc = "fetch"
  /\ \E data \in (IF lCall.fn = "loadSentencePiece" THEN SentencePieceFiles
                  ELSE IF LoaderOf(lCall.name) = "clip" THEN ClipFiles
                  ELSE TiktokenFiles) :
       /\ lData' = data
       /\ lOut' = IF lCall.fn = "loadSentencePiece" THEN SentencePieceResult(data)
                  ELSE IF LoaderOf(lCall.name) = "clip" THEN ClipResult(data)
                  ELSE TiktokenResult(lCall.name, data)
  /\ lFetched' = "data"
  /\ lpc' = "done"
  /\ UNCHANGED <<lCall, lUrl, lFetches, notLoad>>

\* the fetch fails or is aborted
FetchReject ==
  /\ lpc = "fetch"
  /\ \E err \in FetchErrors :
       /\ lFetched' = err
       /\ lOut' = [kind |-> "rejected", error |-> AwaitRejected(err), inst |-> <<>>]
  /\ lpc' = "done"
  /\ UNCHANGED <<lCall, lUrl, lFetches, lData, notLoad>>

\* new BpeEncoding(encoder, specialTokens, regex)
Construct ==
  /\ lpc = "idle"
  /\ \E encoder \in CtorEncoders, specials \in CtorSpecials, regexGlobal \in BOOLEAN :
       /\ lData' = [encoder |-> encoder, specials |-> specials, regexGlobal |-> regexGlobal]
       /\ lOut' = LET made == NewBpeEncoding("plain", encoder, specials, regexGlobal)
                  IN IF made.threw THEN [kind |-> "threw", error |-> made.error, inst |-> <<>>]
                     ELSE [kind |-> "instance", error |-> "", inst |-> made.inst]
  /\ lCall' = [fn |-> "new BpeEncoding", name |-> ""]
  /\ lUrl' = ""
  /\ lFetches' = 0
  /\ lFetched' = ""
  /\ lpc' = "done"
  /\ UNCHANGED notLoad

\* the caller takes the result
LoadReturn ==
  /\ lpc = "done"
  /\ lpc' = "idle"
  /\ lCall' = NoLoadCall
  /\ lUrl' = ""
  /\ lFetches' = 0
  /\ lFetched' = ""
  /\ lData' = <<>>
  /\ lOut' = NoLoad
  /\ UNCHANGED notLoad

NextLoad ==
  \/ GetBpe
  \/ LoadSentencePiece
  \/ FetchResolve
  \/ FetchReject
  \/ Construct
  \/ LoadReturn

SpecLoad == InitLoad /\ [][NextLoad]_vars

(***************************************************************************)
(* streamLines over a stream of text chunks, one action per reader.read()  *)
(* and per yield.                                                          *)
(***************************************************************************)
\* longest text a stream carries
MaxStreamText == 4

StreamTexts == SeqsUpTo({chLowA, chLf}, MaxStreamText)

\* the text cut after the positions of cutSet, as the chunks of a stream
ChunksOf(str, cutSet) ==
  LET cuts == <<0>> \o SelectSeq([k \in 1..(Len(str) - 1) |-> k], LAMBDA k : k \in cutSet)
                   \o <<Len(str)>>
  IN IF str = <<>> THEN <<>>
     ELSE [i \in 1..(Len(cuts) - 1) |-> substring(str, cuts[i], cuts[i + 1])]

\* the ways a stream may deliver a text: cut anywhere, with or without one
\* empty chunk somewhere
Chunkings(str) ==
  LET plain == {ChunksOf(str, cutSet) : cutSet \in SUBSET (1..(Len(str) - 1))}
  IN plain \cup UNION {{SubSeq(c, 1, p) \o << <<>> >> \o SubSeq(c, p + 1, Len(c)) : p \in 0..Len(c)}
                          : c \in plain}

InitStream ==
  /\ sText = <<>>
  /\ sChunks = <<>>
  /\ sBuffer = <<>>
  /\ sPending = <<>>
  /\ sYielded = <<>>
  /\ spc = "idle"
  /\ MergeParked
  /\ BpeParked
  /\ UniParked
  /\ LoadParked

\* streamLines(stream) is called and iterated: getReader(), buffer = ""
StreamOpen ==
  /\ spc = "idle"
  /\ \E t \in StreamTexts : \E c \in Chunkings(t) :
       /\ sText' = t
       /\ sChunks' = c
  /\ sBuffer' = <<>>
  /\ sPending' = <<>>
  /\ sYielded' = <<>>
  /\ spc' = "read"
  /\ UNCHANGED notStream

StreamReadMut ==
  /\ spc = "read"
  /\ sChunks # <<>>
  /\ LET lines == SplitOn(Head(sChunks), chLf) IN
       /\ sBuffer' = lines[Len(lines)]
       /\ sPending' = SubSeq(lines, 1, Len(lines) - 1)
       /\ spc' = IF Len(lines) > 1 THEN "yield" ELSE "read"
  /\ sChunks' = Tail(sChunks)
  /\ UNCHANGED <<sText, sYielded, notStream>>

\* reader.read() gives a chunk: buffer += value, split, the last segment
\* stays in buffer, the others are to be yielded
StreamRead ==
  /\ spc = "read"
  /\ sChunks # <<>>
  /\ LET lines == SplitOn(sBuffer \o Head(sChunks), chLf) IN
       /\ sBuffer' = lines[Len(lines)]
       /\ sPending' = SubSeq(lines, 1, Len(lines) - 1)
       /\ spc' = IF Len(lines) > 1 THEN "yield" ELSE "read"
  /\ sChunks' = Tail(sChunks)
  /\ UNCHANGED <<sText, sYielded, notStream>>

\* yield line, for the next line of the for loop
StreamYield ==
  /\ spc = "yield"
  /\ sYielded' = Append(sYielded, Head(sPending))
  /\ sPending' = Tail(sPending)
  /\ spc' = IF Tail(sPending) = <<>> THEN "read" ELSE "yield"
  /\ UNCHANGED <<sText, sChunks, sBuffer, notStream>>

\* reader.read() gives done: the buffer is yielded if it is not empty, and
\* the lock is released
StreamDone ==
  /\ spc = "read"
  /\ sChunks = <<>>
  /\ sYielded' = IF sBuffer # <<>> THEN Append(sYielded, sBuffer) ELSE sYielded
  /\ spc' = "done"
  /\ UNCHANGED <<sText, sChunks, sBuffer, sPending, notStream>>

\* the consumer's loop is over
StreamClose ==
  /\ spc = "done"
  /\ sText' = <<>>
  /\ sChunks' = <<>>
  /\ sBuffer' = <<>>
  /\ sPending' = <<>>
  /\ sYielded' = <<>>
  /\ spc' = "idle"
  /\ UNCHANGED notStream

NextStream ==
  \/ StreamOpen
  \/ StreamRead
  \/ StreamYield
  \/ StreamDone
  \/ StreamClose

SpecStream == InitStream /\ [][NextStream]_vars


(***************************************************************************)
(* Properties of the merge engine.                                         *)
(***************************************************************************)
\* the smallest index among the pairs 0 .. Len(prts) - 2 of least rank
LeftmostMinIndex(prts) ==
  CHOOSE j \in 0..(Len(prts) - 2) :
    \A h \in 0..(Len(prts) - 2) :
      \/ At(prts, j)[2] < At(prts, h)[2]
      \/ (At(prts, j)[2] = At(prts, h)[2] /\ j <= h)

\* the start offsets of a parts array
Starts(prts) == [k \in 1..Len(prts) |-> prts[k][1]]

abHex == HexOf(<<chLowA, chLowB>>)
bcHex == HexOf(<<chLowB, chLowC>>)
abcHex == HexOf(<<chLowA, chLowB, chLowC>>)
aaHex == HexOf(<<chLowA, chLowA>>)
aaaHex == HexOf(<<chLowA, chLowA, chLowA>>)

C7_AtLoopTest ==
  /\ (mpc = "loop" /\ minRank[1] # RANK_MAX) =>
        minRank = <<At(parts, LeftmostMinIndex(parts))[2], LeftmostMinIndex(parts)>>
  /\ (mpc = "loop" /\ minRank[1] = RANK_MAX) =>
        \A j \in 0..(Len(parts) - 2) : At(parts, j)[2] = RANK_MAX
  /\ (/\ mpc = "done" /\ piece = abcHex
      /\ abHex \in DOMAIN ranks /\ bcHex \in DOMAIN ranks /\ abcHex \notin DOMAIN ranks
      /\ ranks[abHex] = ranks[bcHex]) =>
        tokens = <<ranks[abHex], ranks[HexOf(<<chLowC>>)]>>
  /\ (mpc = "done" /\ piece = aaaHex /\ aaHex \in DOMAIN ranks /\ aaaHex \notin DOMAIN ranks) =>
        tokens = <<ranks[aaHex], ranks[HexOf(<<chLowA>>)]>>

C7_Iteration ==
  (mpc = "loop" /\ mpc' = "loop" /\ parts' # parts) =>
     Starts(parts') = Starts(Splice1(parts, LeftmostMinIndex(parts) + 1))

\* C7: whenever the merge loop is at its test (after the first scan and after
\* each re-scan) minRank names the leftmost pair of least rank, and that pair
\* is the one the iteration merges; so 'abc' with rank(ab) = rank(bc) and no
\* 'abc' gives [ab, c], and 'aaa' with 'aa' and no 'aaa' gives [aa, a].
C7_LeftmostMinMerged == [](C7_AtLoopTest) /\ [][C7_Iteration]_vars

\* a call on 'abc' with rank(ab) = rank(bc) has returned [ab, c]
C7_Witness ==
  /\ mpc = "done" /\ piece = abcHex
  /\ abHex \in DOMAIN ranks /\ bcHex \in DOMAIN ranks /\ abcHex \notin DOMAIN ranks
  /\ ranks[abHex] = ranks[bcHex]
  /\ tokens = <<ranks[abHex], ranks[HexOf(<<chLowC>>)]>>

(***************************************************************************)
(* Properties of BpeEncoding (plain instances).                            *)
(***************************************************************************)
\* no lone surrogate
WellFormed(str) ==
  \A k \in 1..Len(str) :
    /\ IsHighSurrogate(str[k]) => (k < Len(str) /\ IsLowSurrogate(str[k + 1]))
    /\ IsLowSurrogate(str[k]) => (k > 1 /\ IsHighSurrogate(str[k - 1]))

\* some special-token literal occurs in str
HasSpecialLiteral(inst, str) ==
  \E lit \in specialTokens(inst) : \E i \in 0..Len(str) : StartsWithAt(str, lit, i)

\* the encoder has every single byte
HasAllBytes(inst) == \A b \in 0..255 : _bytesToHex(<<b>>) \in DOMAIN inst.encoder

\* C1: for a plain encoding with every single byte, a well-formed text t
\* without special-token literal is given back by decode(encode(t)), and
\* decodeBytes(encode(t)) is the UTF-8 of t.
C1_RoundTrip ==
  (/\ bpc = "done" /\ call.op = "encode" /\ bpe.kind = "plain" /\ HasAllBytes(bpe)
   /\ WellFormed(call.text) /\ ~HasSpecialLiteral(bpe, call.text)) =>
     /\ decodeBytes(bpe, out.value) = [threw |-> FALSE, value |-> TextEncode(call.text)]
     /\ decode(bpe, out.value) = [threw |-> FALSE, value |-> call.text]

\* what does hold: the bytes come back
C1_BytesRoundTrip ==
  (/\ bpc = "done" /\ call.op = "encode" /\ bpe.kind = "plain" /\ HasAllBytes(bpe)
   /\ WellFormed(call.text) /\ ~HasSpecialLiteral(bpe, call.text)) =>
     decodeBytes(bpe, out.value) = [threw |-> FALSE, value |-> TextEncode(call.text)]

\* encode of a text that starts with a byte order mark has returned
C1_Witness ==
  /\ bpc = "done" /\ call.op = "encode"
  /\ call.text # <<>> /\ call.text[1] = chBom
  /\ WellFormed(call.text) /\ ~HasSpecialLiteral(bpe, call.text)

\* the state right after an accepted special token was pushed
AfterAccepted ==
  bpc = "scan" /\ nextSpecial # Null /\ AllowedHas(allowedSpecial, nextSpecial.match)

\* C2: after an accepted special literal L found at k, one id rank(L) is
\* pushed and the scan and the splitter resume at k + length(L); so
\* encodeWithSpecialTokens(L) = [rank(L)].
C2_ResumeAfterLiteral ==
  /\ AfterAccepted =>
       /\ ret # <<>> /\ ret[Len(ret)] = SpecialRank(bpe, nextSpecial.match)
       /\ start = nextSpecial.index + Len(nextSpecial.match)
       /\ lastIndex = nextSpecial.index + Len(nextSpecial.match)
  /\ (bpc = "done" /\ call.op = "encodeWithSpecialTokens" /\ call.text \in specialTokens(bpe)) =>
       out.value = <<SpecialRank(bpe, call.text)>>

\* encodeWithSpecialTokens of a special literal has returned
C2_Witness ==
  bpc = "done" /\ call.op = "encodeWithSpecialTokens" /\ call.text \in specialTokens(bpe)

\* the ranks of the special tokens
SpecialRanks(inst) ==
  {inst.specialTokensEncoder[k][2] : k \in 1..Len(inst.specialTokensEncoder)}

\* the literal a special rank stands for
LiteralOf(inst, r) ==
  inst.specialTokensEncoder[CHOOSE k \in 1..Len(inst.specialTokensEncoder) :
                              inst.specialTokensEncoder[k][2] = r][1]

C3_OnlyAllowed ==
  /\ bpc = "scan" => (lastIndex >= start /\ lastIndex <= Len(text))
  /\ bpc \in {"scan", "emit", "done"} =>
       \A k \in 1..Len(ret) :
         ret[k] \in SpecialRanks(bpe) =>
           /\ allowedSpecial.given
           /\ LiteralOf(bpe, ret[k]) \in allowedSpecial.has
           /\ \E i \in 0..Len(text) : StartsWithAt(text, LiteralOf(bpe, ret[k]), i)
  /\ (bpc = "done" /\ call.op = "encode" /\ (~allowedSpecial.given \/ allowedSpecial.has = {})) =>
       /\ \A k \in 1..Len(out.value) : out.value[k] \notin SpecialRanks(bpe)
       /\ out.value = EncodePieces(bpe.encoder, MatchAll(bpe.regex, call.text))

C3_Rejected ==
  (bpc = "scan" /\ bpc' = "scan" /\ start' = start /\ ret' = ret) =>
     /\ nextSpecial' # Null
     /\ ~(allowedSpecial.given /\ nextSpecial'.match \in allowedSpecial.has)
     /\ lastIndex' = nextSpecial'.index + 1
     /\ nextSpecial'.index >= lastIndex
     /\ lastIndex' > lastIndex

\* C3: a special rank is pushed only for a literal of allowedSpecial that
\* occurs in the text; a rejected match moves the scan to one past its start;
\* with allowedSpecial omitted or empty the result is the ordinary encoding of
\* the whole text; and the scan loop comes to its end, as each pass of it
\* raises lastIndex, which stays within the text.
C3_OnlyAllowedSpecials == [](C3_OnlyAllowed) /\ [][C3_Rejected]_vars

\* a text holding a special literal was encoded without allowing it
C3_Witness ==
  /\ bpc = "done" /\ call.op = "encode" /\ ~allowedSpecial.given
  /\ HasSpecialLiteral(bpe, call.text)
  /\ out.value = EncodePieces(bpe.encoder, MatchAll(bpe.regex, call.text))

(***************************************************************************)
(* Properties of ClipEncoding.                                             *)
(***************************************************************************)
EncodeReturned == bpc = "done" /\ call.op \in {"encode", "encodeWithSpecialTokens"}

\* C4: ClipEncoding.encode returns exactly 77 ids for every text and every
\* allowedSpecial, however many body tokens there are.
C4_Length77 == (EncodeReturned /\ bpe.kind = "clip") => (~out.threw /\ Len(out.value) = 77)

\* a call with more than 75 body tokens has returned
C4_Witness == EncodeReturned /\ bpe.kind = "clip" /\ Len(ret) > 75 /\ Len(out.value) = 77

WhitespaceOnly(str) == \A k \in 1..Len(str) : IsSpace(str[k])

\* C5: for a text of whitespace only (the empty text included)
\* ClipEncoding.encode returns BOS, EOS and 75 zeros, BOS being the size of
\* the encoder and EOS the next integer.
C5_WhitespaceOnly ==
  (EncodeReturned /\ bpe.kind = "clip" /\ WhitespaceOnly(call.text)) =>
     out.value = <<Cardinality(DOMAIN bpe.encoder), Cardinality(DOMAIN bpe.encoder) + 1>>
                   \o [k \in 1..75 |-> 0]

\* a call on a non-empty text of whitespace only has returned
C5_Witness ==
  /\ EncodeReturned /\ bpe.kind = "clip" /\ WhitespaceOnly(call.text) /\ Len(call.text) > 1
  /\ out.value[1] = Cardinality(DOMAIN bpe.encoder)

\* the non-zero ids of a list, in order
NonZeroIds(toks) ==
  LET keep == {k \in 1..Len(toks) : toks[k] # 0}
  IN [i \in 1..Cardinality(keep) |->
        toks[CHOOSE k \in keep : Cardinality({h \in keep : h < k}) = i - 1]]

\* the bytes the decoder maps hold for the ids, in order
BytesOfIds(inst, ids) ==
  Concat([k \in 1..Len(ids) |->
    _bytesFromHex(IF ids[k] \in DOMAIN inst.decoder THEN inst.decoder[ids[k]]
                  ELSE inst.specialTokensDecoder[ids[k]])])

\* x without its trailing zeros
WithoutPadding(x) ==
  LET last == {k \in 1..Len(x) : x[k] # 0}
  IN IF last = {} THEN <<>> ELSE SubSeq(x, 1, CHOOSE k \in last : \A h \in last : h <= k)

\* C6: ClipEncoding.decode drops the ids equal to 0 and returns the text of
\* the bytes of the other ids in order, BOS and EOS as their literals; and an
\* output of ClipEncoding.encode decodes without failing, to the same text as
\* that output without its padding.
C6_DecodeDropsZeros ==
  /\ (bpc = "done" /\ call.op = "decode" /\ bpe.kind = "clip") =>
       IF \A k \in 1..Len(call.toks) : call.toks[k] = 0 \/ KnownToken(bpe, call.toks[k])
       THEN out = [threw |-> FALSE,
                   value |-> TextDecode(BytesOfIds(bpe, NonZeroIds(call.toks)))]
       ELSE out.threw
  /\ (bpc = "done" /\ call.op = "decode" /\ bpe.kind = "clip"
        /\ call.toks = <<Cardinality(DOMAIN bpe.encoder), Cardinality(DOMAIN bpe.encoder) + 1>>) =>
       out.value = sotLiteral \o eotLiteral
  /\ (EncodeReturned /\ bpe.kind = "clip") =>
       /\ ~decode(bpe, out.value).threw
       /\ decode(bpe, out.value) = decode(bpe, WithoutPadding(out.value))

\* decode of a list with a zero and another id has returned a text
C6_Witness ==
  /\ bpc = "done" /\ call.op = "decode" /\ bpe.kind = "clip"
  /\ Len(call.toks) = 2 /\ call.toks[1] = 0 /\ call.toks[2] # 0
  /\ ~out.threw /\ out.value # <<>>

(***************************************************************************)
(* Properties of Unigram.                                                  *)
(***************************************************************************)
\* the pieces the constructor put into the trie: [str, id, score]
Vocabulary(inst) ==
  {[str |-> Concat(path), id |-> inst.trie.token[path].id, score |-> inst.trie.token[path].score]
     : path \in DOMAIN inst.trie.token}

PieceStrings(inst) == {v.str : v \in Vocabulary(inst)}

\* a BYTE piece for each of the 256 bytes
HasAllBytePieces(inst) == \A b \in 0..255 : _bytesToHex(<<b>>) \in DOMAIN inst.byteFallback

RECURSIVE MaxSegScore(_, _, _)
\* the greatest score sum over the segmentations of str from pos on into
\* pieces of vocab, by enumeration; NegInfinity when there is none
MaxSegScore(vocab, str, pos) ==
  IF pos >= Len(str) THEN 0
  ELSE LET sums == {v.score + MaxSegScore(vocab, str, pos + Len(v.str)) :
                      v \in {w \in vocab : /\ w.str # <<>>
                                           /\ StartsWithAt(str, w.str, pos)
                                           /\ MaxSegScore(vocab, str, pos + Len(w.str)) # NegInfinity}}
       IN IF sums = {} THEN NegInfinity ELSE CHOOSE x \in sums : \A y \in sums : y <= x

RECURSIVE ScoreSum(_, _)
ScoreSum(inst, ids) ==
  IF ids = <<>> THEN 0
  ELSE (CHOOSE v \in Vocabulary(inst) : v.id = Head(ids)).score + ScoreSum(inst, Tail(ids))

\* ids name pieces of the vocabulary whose strings, joined, are str
IsSegmentation(inst, ids, str) ==
  /\ \A k \in 1..Len(ids) : \E v \in Vocabulary(inst) : v.id = ids[k]
  /\ Concat([k \in 1..Len(ids) |-> inst.decoder[ids[k]]]) = str

\* every character (code point) of str is a piece of the vocabulary
EachCharIsPiece(inst, str) ==
  \A k \in 1..Len(CodePointsOf(str)) : CodePointsOf(str)[k] \in PieceStrings(inst)

UniEncodeReturned == upc = "done" /\ uCall.op = "encode"

\* C8: when every character of the normalized text is itself a piece of the
\* vocabulary (scores negative), encode returns a segmentation of that text
\* into pieces whose score sum is the greatest over all segmentations.
C8_ViterbiOptimal ==
  (UniEncodeReturned /\ EachCharIsPiece(uni, uText)) =>
     /\ IsSegmentation(uni, uOut, uText)
     /\ ScoreSum(uni, uOut) = MaxSegScore(Vocabulary(uni), uText, 0)

\* the same, for texts whose characters are single UTF-16 units: this holds
C8_ViterbiOptimalBmp ==
  (/\ UniEncodeReturned /\ EachCharIsPiece(uni, uText)
   /\ \A k \in 1..Len(uText) : ~IsHighSurrogate(uText[k]) /\ ~IsLowSurrogate(uText[k])) =>
     /\ IsSegmentation(uni, uOut, uText)
     /\ ScoreSum(uni, uOut) = MaxSegScore(Vocabulary(uni), uText, 0)

\* encode of a text of two pieces 'a', 'b' that also is the piece 'ab' has returned
C8_Witness ==
  /\ UniEncodeReturned /\ uText = <<chLowA, chLowB>>
  /\ {<<chLowA>>, <<chLowB>>, <<chLowA, chLowB>>} \subseteq PieceStrings(uni)

\* C9: with the piece 'ab' and the byte pieces in the vocabulary and [ab] the
\* only segmentation of 'ab' into pieces, encode('ab') without dummy prefix
\* returns [id('ab')], whatever the other pieces and scores.
C9_VocabularyFirst ==
  (/\ UniEncodeReturned /\ ~uni.addDummyPrefix /\ uCall.text = <<chLowA, chLowB>>
   /\ HasAllBytePieces(uni)
   /\ <<chLowA, chLowB>> \in PieceStrings(uni)
   /\ ~(<<chLowA>> \in PieceStrings(uni) /\ <<chLowB>> \in PieceStrings(uni))) =>
     uOut = <<(CHOOSE v \in Vocabulary(uni) : v.str = <<chLowA, chLowB>>).id>>

\* encode('ab') has returned for a vocabulary with 'ab' and 'b' but not 'a'
C9_Witness ==
  /\ UniEncodeReturned /\ ~uni.addDummyPrefix /\ uCall.text = <<chLowA, chLowB>>
  /\ <<chLowA, chLowB>> \in PieceStrings(uni)
  /\ <<chLowB>> \in PieceStrings(uni) /\ <<chLowA>> \notin PieceStrings(uni)

\* C10: with byte pieces for all 256 bytes and both normalizer flags set,
\* decode(encode(t)) is t with each whitespace run collapsed to one space and
\* trimmed, for every text t (here: every text without lone surrogate).
C10_RoundTrip ==
  (/\ UniEncodeReturned /\ uni.addDummyPrefix /\ uni.removeExtraWhitespaces
   /\ HasAllBytePieces(uni) /\ WellFormed(uCall.text)) =>
     UnigramDecode(uni, uOut) = trim(CollapseSpaces(uCall.text))

\* the same for texts without U+2581 and without characters of two UTF-16
\* units: this holds
C10_RoundTripPlain ==
  (/\ UniEncodeReturned /\ uni.addDummyPrefix /\ uni.removeExtraWhitespaces
   /\ HasAllBytePieces(uni)
   /\ \A k \in 1..Len(uCall.text) :
        /\ uCall.text[k] # SPIECE_UNDERLINE
        /\ ~IsHighSurrogate(uCall.text[k]) /\ ~IsLowSurrogate(uCall.text[k])) =>
     UnigramDecode(uni, uOut) = trim(CollapseSpaces(uCall.text))

\* encode of a text with an inner space has returned under the default flags
C10_Witness ==
  /\ UniEncodeReturned /\ uni.addDummyPrefix /\ uni.removeExtraWhitespaces
  /\ Len(uCall.text) = 2 /\ uCall.text[1] = chLowA /\ uCall.text[2] = chSpace

\* byte fallback was applied at position i of the forward loop: prev[i + 1]
\* starts at i and no piece found at i ends at i + 1
FallbackAppliedAt(i) ==
  /\ At(uPrev, i + 1) # NoPrev
  /\ At(uPrev, i + 1)[1] = i
  /\ \A k \in 1..Len(findPiecesAt(uni, uText, i)) : findPiecesAt(uni, uText, i)[k][1] # i + 1

\* byteFallback[hex of the byte], or unkId, for each byte
ByteIds(inst, bytes) ==
  [k \in 1..Len(bytes) |->
     IF _bytesToHex(<<bytes[k]>>) \in DOMAIN inst.byteFallback
     THEN inst.byteFallback[_bytesToHex(<<bytes[k]>>)]
     ELSE inst.unkId]

\* position i of str is where a character starts
CharStartsAt(str, i) ==
  ~(IsLowSurrogate(At(str, i)) /\ i > 0 /\ IsHighSurrogate(At(str, i - 1)))

\* C11: where byte fallback is applied to the character at position i, the
\* ids recorded are those of the UTF-8 bytes of the code point at i, in order,
\* also for a code point outside the BMP; and decode of the ids encode
\* returned for a text of one such character gives the character back.
C11_FallbackPerCodePoint ==
  /\ (upc \in {"forward", "backtrack", "done"} /\ uCall.op = "encode" /\ WellFormed(uText)) =>
       \A i \in 0..(Len(uText) - 1) :
         (FallbackAppliedAt(i) /\ CharStartsAt(uText, i)) =>
           At(uPrev, i + 1)[2] = ByteIds(uni, Utf8OfCodePoint(CodePointAt(uText, i)[1]))
  /\ (/\ upc = "done" /\ uCall.op = "encode" /\ ~uni.addDummyPrefix
      /\ uCall.text = <<chHi, chLo>> /\ <<chHi, chLo>> \notin PieceStrings(uni)) =>
       UnigramDecode(uni, uOut) = uCall.text

\* the same for characters of one UTF-16 unit: this holds
C11_FallbackPerUnit ==
  (upc \in {"forward", "backtrack", "done"} /\ uCall.op = "encode") =>
     \A i \in 0..(Len(uText) - 1) :
       (FallbackAppliedAt(i) /\ ~IsHighSurrogate(At(uText, i)) /\ ~IsLowSurrogate(At(uText, i))) =>
         At(uPrev, i + 1)[2] = ByteIds(uni, Utf8OfCodePoint(At(uText, i)))

\* encode of a character outside the BMP that is no piece has returned
C11_Witness ==
  /\ upc = "done" /\ uCall.op = "encode" /\ ~uni.addDummyPrefix
  /\ uCall.text = <<chHi, chLo>> /\ <<chHi, chLo>> \notin PieceStrings(uni)
  /\ FallbackAppliedAt(0)

\* what the normalizer is to give for str under the two flags
NormalForm(str, collapse, prefix) ==
  LET t1 == IF collapse THEN trim(CollapseSpaces(str)) ELSE str
      t2 == IF t1 = <<>> THEN <<>> ELSE IF prefix THEN <<chSpace>> \o t1 ELSE t1
  IN [k \in 1..Len(t2) |-> IF t2[k] = chSpace THEN SPIECE_UNDERLINE ELSE t2[k]]

\* str is empty after the collapse-and-trim that the flag asks for
EmptyAfterTrim(inst, str) ==
  IF inst.removeExtraWhitespaces THEN \A k \in 1..Len(str) : IsSpace(str[k]) ELSE str = <<>>

HexOfRank(inst, r) ==
  IF r \in DOMAIN inst.decoder THEN inst.decoder[r] ELSE inst.specialTokensDecoder[r]

\* some rank of the list is in neither map
HasUnknownRank(inst, toks) ==
  \E k \in 1..Len(toks) :
    toks[k] \notin DOMAIN inst.decoder /\ toks[k] \notin DOMAIN inst.specialTokensDecoder

\* C12: decode and decodeBytes of a list with a rank that is in neither
\* decoder nor specialTokensDecoder throw and return nothing; of a list of
\* known ranks they return the bytes of the ranks in order, each rank looked
\* up in decoder first.
C12_UnknownRankThrows ==
  (bpc = "done" /\ call.op \in {"decode", "decodeBytes"}) =>
     IF HasUnknownRank(bpe, call.toks)
     THEN out.threw /\ out.value = <<>>
     ELSE /\ ~out.threw
          /\ LET bytes == _bytesFromHex(Concat([k \in 1..Len(call.toks) |-> HexOfRank(bpe, call.toks[k])]))
             IN out.value = IF call.op = "decode" THEN TextDecode(bytes) ELSE bytes

\* decodeBytes of a known rank followed by an unknown one has thrown
C12_Witness ==
  /\ bpc = "done" /\ call.op = "decodeBytes"
  /\ Len(call.toks) = 2 /\ KnownToken(bpe, call.toks[1]) /\ ~KnownToken(bpe, call.toks[2])
  /\ out.threw

(***************************************************************************)
(* Properties of the constructor and the loaders.                          *)
(***************************************************************************)
\* two entries of the encoder, two special tokens, or a special token and an
\* entry of the encoder have one rank
SharesRank(encoder, specials) ==
  \/ \E k1 \in DOMAIN encoder, k2 \in DOMAIN encoder : k1 # k2 /\ encoder[k1] = encoder[k2]
  \/ \E i \in 1..Len(specials), j \in 1..Len(specials) : i # j /\ specials[i][2] = specials[j][2]
  \/ \E i \in 1..Len(specials), key \in DOMAIN encoder : specials[i][2] = encoder[key]

\* decoder is the inverse of encoder, specialTokensDecoder that of
\* specialTokensEncoder, and no rank is a key of both
InverseMaps(inst) ==
  /\ DOMAIN inst.decoder = {inst.encoder[key] : key \in DOMAIN inst.encoder}
  /\ \A key \in DOMAIN inst.encoder : inst.decoder[inst.encoder[key]] = key
  /\ Cardinality(DOMAIN inst.decoder) = Cardinality(DOMAIN inst.encoder)
  /\ DOMAIN inst.specialTokensDecoder =
       {inst.specialTokensEncoder[k][2] : k \in 1..Len(inst.specialTokensEncoder)}
  /\ \A k \in 1..Len(inst.specialTokensEncoder) :
       inst.specialTokensDecoder[inst.specialTokensEncoder[k][2]]
         = _bytesToHex(TextEncode(inst.specialTokensEncoder[k][1]))
  /\ Cardinality(DOMAIN inst.specialTokensDecoder) = Len(inst.specialTokensEncoder)
  /\ DOMAIN inst.decoder \cap DOMAIN inst.specialTokensDecoder = {}

\* C13: the constructor throws and gives no instance when two ranks are
\* shared (within the encoder, within the special tokens, or between them);
\* in every instance made, by the constructor directly or by getBpe, decoder
\* and specialTokensDecoder are the inverses of the two encoders and their
\* key sets are disjoint.
C13_NoSharedRank ==
  /\ (lpc = "done" /\ lCall.fn = "new BpeEncoding" /\ SharesRank(lData.encoder, lData.specials)) =>
       (lOut.kind = "threw" /\ lOut.inst = <<>>)
  /\ (lpc = "done" /\ lCall.fn \in {"new BpeEncoding", "getBpe"} /\ lOut.kind = "instance") =>
       InverseMaps(lOut.inst)

\* the constructor was given two special tokens of one rank, a proper
\* encoder and a global pattern, and threw
C13_Witness ==
  /\ lpc = "done" /\ lCall.fn = "new BpeEncoding" /\ lData.regexGlobal
  /\ Len(lData.specials) = 2 /\ lData.specials[1][2] = lData.specials[2][2]
  /\ ~DuplicateEncoderRank(lData.encoder)
  /\ lOut.kind = "threw"

KnownNames ==
  {"clip", "r50k_base", "p50k_base", "p50k_edit", "cl100k_base", "o200k_base", "o200k_harmony"}

\* C14: getBpe of a name other than the seven rejects with an error, calls
\* no fetcher (so no loader got as far as its fetch) and makes no encoding;
\* a fetch is never pending for such a name.
C14_UnknownNameRejects ==
  /\ (lpc = "done" /\ lCall.fn = "getBpe" /\ lCall.name \notin KnownNames) =>
       /\ lOut = [kind |-> "rejected", error |-> "Unsupported tokenizer", inst |-> <<>>]
       /\ lFetches = 0 /\ lFetched = "" /\ lUrl = "" /\ lData = <<>>
  /\ (lpc = "fetch" /\ lCall.fn = "getBpe") => lCall.name \in KnownNames

\* getBpe("CLIP") was rejected
C14_Witness ==
  /\ lpc = "done" /\ lCall.fn = "getBpe" /\ lCall.name = "CLIP" /\ lOut.kind = "rejected"

\* str is a decimal integer: digits only, at least one
IsDecimal(str) == str # <<>> /\ \A k \in 1..Len(str) : str[k] >= ch0 /\ str[k] <= ch0 + 9

\* some non-empty line of the file has no rank field or one that is no
\* decimal integer
HasMalformedLine(data) ==
  LET lines == SplitOn(TextDecode(data), chLf)
  IN \E k \in 1..Len(lines) :
       /\ lines[k] # <<>>
       /\ \/ Len(SplitWs(lines[k])) < 2
          \/ ~IsDecimal(SplitWs(lines[k])[2])

TiktokenLoaded == lpc = "done" /\ lCall.fn = "getBpe" /\ LoaderOf(lCall.name) = "tiktoken" /\ lFetched = "data"

\* C15: a .tiktoken file with a malformed non-empty line makes the load fail
\* and gives no encoding; the encoder of an instance holds no rank that is
\* not a non-negative integer.
C15_MalformedLineAborts ==
  /\ (TiktokenLoaded /\ HasMalformedLine(lData)) => (lOut.kind = "rejected" /\ lOut.inst = <<>>)
  /\ (TiktokenLoaded /\ lOut.kind = "instance") =>
       \A key \in DOMAIN lOut.inst.encoder :
         lOut.inst.encoder[key] # NaN /\ lOut.inst.encoder[key] >= 0

\* a file whose second line has no rank was loaded
C15_Witness ==
  /\ TiktokenLoaded /\ HasMalformedLine(lData)
  /\ Len(SplitOn(TextDecode(lData), chLf)) >= 2
  /\ Len(SplitWs(SplitOn(TextDecode(lData), chLf)[2])) = 1

\* what does hold: such a rank is stored as NaN, or the digits before the
\* first other character are taken; the load fails only for a token that is
\* not base64 or for a rank used twice
C15_MalformedLineKept ==
  (TiktokenLoaded /\ lOut.kind = "rejected") =>
     lOut.error \in {"InvalidCharacterError", "Duplicate rank in encoder", "Duplicate rank in special tokens"}

\* C17: when the fetch fails or is aborted, getBpe and loadSentencePiece
\* reject with that same error, no instance is made, and cachedFetch is not
\* called again: it is called at most once in a call.
C17_FetchErrorPropagates ==
  /\ (lpc = "done" /\ lFetched \in FetchErrors) =>
       /\ lOut = [kind |-> "rejected", error |-> lFetched, inst |-> <<>>]
       /\ lFetches = 1
  /\ lFetches <= 1
  /\ lpc = "fetch" => (lOut.kind = "none" /\ lFetches = 1)

\* loadSentencePiece was rejected because the fetch was aborted
C17_Witness ==
  /\ lpc = "done" /\ lCall.fn = "loadSentencePiece" /\ lFetched = "AbortError"
  /\ lOut.kind = "rejected"

ClipLoaded == lpc = "done" /\ lCall.fn = "getBpe" /\ lCall.name = "clip" /\ lFetched = "data"

\* P = [33,126] u [161,172] u [174,255]
PrintableSet == (33..126) \cup (161..172) \cup (174..255)

\* the n-th (n = 0, 1, ...) byte outside P, in increasing order
NthOutside(n) ==
  CHOOSE b \in (0..255) \ PrintableSet : Cardinality({x \in (0..255) \ PrintableSet : x < b}) = n

\* the table of the CLIP loader when count bytes are outside P
ByteTableIs(count) ==
  /\ Cardinality((0..255) \ PrintableSet) = count
  /\ DOMAIN ByteTable.dataGymByteToByte = PrintableSet \cup {256 + n : n \in 0..(count - 1)}
  /\ \A b \in PrintableSet : ByteTable.dataGymByteToByte[b] = b
  /\ \A n \in 0..(count - 1) : ByteTable.dataGymByteToByte[256 + n] = NthOutside(n)
  /\ Len(ByteTable.rankToIntbyte) = 256
  /\ {ByteTable.rankToIntbyte[k] : k \in 1..256} = 0..255
  /\ {ByteTable.dataGymByteToByte[c] : c \in DOMAIN ByteTable.dataGymByteToByte} = 0..255
  /\ Cardinality(DOMAIN ByteTable.dataGymByteToByte) = 256

\* C18 as stated: the bytes outside P are 33
C18_ByteTable33 == ClipLoaded => ByteTableIs(33)

\* C18: in the CLIP loader every byte of P maps to itself and the other
\* bytes, 68 of them, get the code points 256 + n in increasing byte order;
\* rankToIntbyte is a permutation of 0..255 and the map from code points to
\* bytes is a bijection onto the 256 bytes.
C18_ByteTable68 == ClipLoaded => ByteTableIs(68)

\* the CLIP vocabulary was loaded and an encoding made
C18_Witness == ClipLoaded /\ lOut.kind = "instance" /\ ByteTable.escapedSpace = <<256 + 32>>

\* the merge lines the loader accepts from the file it was given
AcceptedMerges == MergeLines(streamLines(TextDecode(lData.text)), 1, <<>>)

\* the key of a merge line
MergeKey(line) == decodeDataGym(SplitAtSpace(line)[1]) \o decodeDataGym(SplitAtSpace(line)[2])

\* the encoder has the 512 seed entries and one entry per merge line, with
\* the ranks 0..511+m, each once
FullRankTable(encoder, merges) ==
  /\ Cardinality(DOMAIN encoder) = 512 + Len(merges)
  /\ {encoder[key] : key \in DOMAIN encoder} = 0..(511 + Len(merges))
  /\ \A r \in 0..255 :
       /\ encoder[_bytesToHex(<<ByteTable.rankToIntbyte[r + 1]>>)] = r
       /\ encoder[_bytesToHex(<<ByteTable.rankToIntbyte[r + 1], 32>>)] = 256 + r
  /\ \A j \in 1..Len(merges) : encoder[MergeKey(merges[j])] = 511 + j

\* the keys of the merge lines differ from each other and from the seed keys
DistinctKeys(merges) ==
  /\ \A i \in 1..Len(merges), j \in 1..Len(merges) : i # j => MergeKey(merges[i]) # MergeKey(merges[j])
  /\ \A i \in 1..Len(merges) : MergeKey(merges[i]) \notin DOMAIN SeedEncoder

\* C19 as stated: for every list of accepted merge lines
C19_RankTableAlways ==
  (ClipLoaded /\ lData.gzip) =>
     /\ lOut.kind = "instance"
     /\ FullRankTable(lOut.inst.encoder, AcceptedMerges)

\* C19: for m accepted merge lines whose keys differ from each other and
\* from the seed keys, the CLIP loader gives an encoder of 512 + m entries
\* with the ranks 0..511+m, each once (r for the byte rankToIntbyte[r], 256 + r
\* for that byte and 0x20, 512 + j for the j-th merge, j from 0), and the
\* constructor does not reject it.
C19_RankTableDistinct ==
  (ClipLoaded /\ lData.gzip /\ DistinctKeys(AcceptedMerges)) =>
     /\ lOut.kind = "instance"
     /\ FullRankTable(lOut.inst.encoder, AcceptedMerges)

\* a file of three merge lines was loaded
C19_Witness ==
  /\ ClipLoaded /\ lData.gzip /\ Len(AcceptedMerges) = 3 /\ DistinctKeys(AcceptedMerges)
  /\ lOut.kind = "instance"

(***************************************************************************)
(* Properties of instances in use.                                         *)
(***************************************************************************)
\* no step changes the instances
C16_InstancesKept == bpe' = bpe /\ uni' = uni

\* a finished encode returned what a fresh instance returns
C16_AsOnFresh ==
  /\ (bpc = "done" /\ call.op \in {"encode", "encodeWithSpecialTokens"}) =>
       out = [threw |-> FALSE, value |-> encode(bpe, call.text, allowedSpecial)]
  /\ (bpc = "done" /\ call.op = "decode") => out = decode(bpe, call.toks)
  /\ (upc = "done" /\ uCall.op = "encode") => uOut = UnigramEncode(uni, uCall.text)
  /\ (upc = "done" /\ uCall.op = "decode") => uOut = UnigramDecode(uni, uCall.toks)

\* C16: in any sequence of calls on one BpeEncoding and one Unigram (calls
\* that throw included) no step changes the maps or the trie of the
\* instances, and every encode returns what it returns on a fresh instance,
\* whatever earlier calls left in specialRegex.lastIndex.
C16_Immutable == [](C16_AsOnFresh) /\ [][C16_InstancesKept]_vars

\* an encode on the Unigram has returned while the specialRegex of the
\* BpeEncoding has been used, and an encodeWithSpecialTokens of a text with
\* two overlapping literals has returned
C16_Witness ==
  /\ bpc = "done" /\ call.op = "encodeWithSpecialTokens"
  /\ call.text = <<chLt, chLowA, chLt>>
  /\ Len(out.value) = 3
  /\ upc = "idle"

(***************************************************************************)
(* Properties of the Unigram constructor and of the trie.                  *)
(***************************************************************************)
\* 1-based positions of the pieces the constructor is to put into the trie
TriePositions(pieces) == {k \in 1..Len(pieces) : pieces[k].type \in {"NORMAL", "USER_DEFINED"}}

\* 1-based positions of the BYTE pieces of the form <0xHH>
BytePositions(pieces) ==
  {k \in 1..Len(pieces) : pieces[k].type = "BYTE" /\ ByteMatch(pieces[k].piece) # <<>>}

\* the ids held by byteFallback
FallbackIds(inst) == {inst.byteFallback[h] : h \in DOMAIN inst.byteFallback}

\* C21: for the instance built from a piece list, the decoder resolves every
\* index (vocabSize is the number of pieces); the terminal nodes of the trie
\* are exactly the distinct strings of the NORMAL and USER_DEFINED pieces,
\* each with the id and score of one such piece; byteFallback holds exactly
\* the bytes of the BYTE pieces of the form <0xHH>, under ids of such pieces;
\* CONTROL, UNKNOWN and UNUSED pieces are in neither; and encode returns only
\* ids of NORMAL/USER_DEFINED pieces, of BYTE pieces, or unkId.
C21_ConstructorMaps ==
  LET pieces == uModel.pieces
      vocab == Vocabulary(uni)
      strings == {v.str : v \in vocab}
      triePos == TriePositions(pieces)
      bytePos == BytePositions(pieces)
      inNeither == {k - 1 : k \in {j \in 1..Len(pieces) :
                                    pieces[j].type \in {"CONTROL", "UNKNOWN", "UNUSED"}}}
  IN
  /\ UniEncodeReturned =>
       \A k \in 1..Len(uOut) :
         \/ uOut[k] = uni.unkId
         \/ /\ uOut[k] + 1 \in 1..Len(pieces)
            /\ \/ pieces[uOut[k] + 1].type \in {"NORMAL", "USER_DEFINED"}
               \/ /\ pieces[uOut[k] + 1].type = "BYTE"
                  /\ ByteMatch(pieces[uOut[k] + 1].piece) # <<>>
  /\ upc = "idle" =>
    /\ strings = {pieces[k].piece : k \in triePos}
    /\ Cardinality(vocab) = Cardinality(strings)
    /\ \A v \in vocab :
         /\ v.id + 1 \in triePos
         /\ pieces[v.id + 1].piece = v.str
         /\ pieces[v.id + 1].score = v.score
    /\ DOMAIN uni.decoder = 0..(Len(pieces) - 1)
    /\ \A i \in DOMAIN uni.decoder : uni.decoder[i] = pieces[i + 1].piece
    /\ DOMAIN uni.byteFallback =
         {LowerHex(ByteMatch(pieces[k].piece)) : k \in bytePos}
    /\ \A h \in DOMAIN uni.byteFallback :
         /\ uni.byteFallback[h] + 1 \in bytePos
         /\ LowerHex(ByteMatch(pieces[uni.byteFallback[h] + 1].piece)) = h
    /\ inNeither \cap (FallbackIds(uni) \cup {v.id : v \in vocab}) = {}

\* encode has returned the id of a piece of the trie, of a byte piece and
\* unkId for a piece list with repeated strings and pieces of every type
C21_Witness ==
  /\ UniEncodeReturned
  /\ uModel.pieces = OddPieces
  /\ uOut = <<2, 8, 0, 0>>

\* <<end, id, score>> for the pieces of vocab whose string is str[from..end)
MatchesAt(vocab, str, from) ==
  {<<from + Len(v.str), v.id, v.score>> :
     v \in {w \in vocab : w.str # <<>> /\ StartsWithAt(str, w.str, from)}}

\* results holds exactly the triples of expected, in increasing order of end
ListsExactly(results, expected) ==
  /\ {results[k] : k \in 1..Len(results)} = expected
  /\ \A k \in 1..(Len(results) - 1) : results[k][1] < results[k + 1][1]

\* the forward loop is about to call #findPiecesAt(text, i)
AtFindPieces == upc = "forward" /\ uI < Len(uText)

\* C22: #findPiecesAt(text, i) returns exactly the triples (end, id, score)
\* with text[i..end) the string of a piece of the trie, in increasing order
\* of end, pieces with characters of two UTF-16 units included.
C22_FindPiecesExact ==
  AtFindPieces =>
    ListsExactly(findPiecesAt(uni, uText, uI), MatchesAt(Vocabulary(uni), uText, uI))

\* the same for the pieces whose characters are single UTF-16 units: this
\* holds, and of the other pieces none is ever returned
C22_FindPiecesBmp ==
  AtFindPieces =>
    ListsExactly(findPiecesAt(uni, uText, uI),
                 MatchesAt({v \in Vocabulary(uni) : Len(CodePointsOf(v.str)) = Len(v.str)}, uText, uI))

\* #findPiecesAt is called at the start of a character of two units that is a
\* piece of the trie
C22_Witness ==
  /\ AtFindPieces /\ uI = 0
  /\ uText = <<chHi, chLo>>
  /\ <<chHi, chLo>> \in PieceStrings(uni)

(***************************************************************************)
(* Properties of the two passes of Unigram.encode.                         *)
(***************************************************************************)
\* the ids of the pieces of the trie
TrieIds(inst) == {v.id : v \in Vocabulary(inst)}

\* an entry of prev written by the byte fallback of position j - 1 (the
\* entries written for a piece hold the one id of a piece of the trie)
FallbackEntryFor(ids, e, j) ==
  /\ e # NoPrev
  /\ e[1] = j - 1
  /\ ~(Len(e[2]) = 1 /\ e[2][1] \in ids)

IsFallbackEntry(inst, e, j) == FallbackEntryFor(TrieIds(inst), e, j)

\* a piece of vocab is str[s..j) for some s < j
PieceReaches(vocab, str, j) ==
  \E s \in 0..(j - 1) : \E v \in vocab :
    v.str # <<>> /\ s + Len(v.str) = j /\ StartsWithAt(str, v.str, s)

\* the positions whose entry of prev is final: those up to i in the forward
\* pass, all of them after it
SettledUpTo ==
  IF upc = "forward" THEN uI
  ELSE IF upc \in {"backtrack", "done"} /\ uCall.op = "encode" THEN Len(uText)
  ELSE 0

\* entries of prev written by the fallback stay, and entries written for a
\* piece are not replaced by a fallback
FallbackKept ==
  (upc = "forward" /\ upc' \in {"forward", "backtrack"}) =>
    LET ids == TrieIds(uni) IN
    \A j \in 1..Len(uText) :
      /\ FallbackEntryFor(ids, At(uPrev, j), j) => At(uPrev', j) = At(uPrev, j)
      /\ (At(uPrev, j) # NoPrev /\ ~FallbackEntryFor(ids, At(uPrev, j), j)) =>
           ~FallbackEntryFor(ids, At(uPrev', j), j)

\* prev[j] is a fallback entry exactly when no piece of the trie is
\* text[s..j)
FallbackIff ==
  LET vocab == Vocabulary(uni)
      ids == {v.id : v \in vocab}
  IN \A j \in 1..SettledUpTo :
       FallbackEntryFor(ids, At(uPrev, j), j) <=> ~PieceReaches(vocab, uText, j)

\* C23: in the forward pass prev[i + 1] is a byte-fallback step if and only
\* if no vocabulary piece is text[s..i + 1) for a start s <= i; a fallback
\* entry is never replaced later, and an entry written for a piece is never
\* replaced by a fallback.
C23_FallbackOnlyIfNoPiece == [](FallbackIff) /\ [][FallbackKept]_vars

\* the same with the pieces whose characters are single UTF-16 units, the
\* ones #findPiecesAt can return: this holds
FallbackIffBmp ==
  LET vocab == Vocabulary(uni)
      ids == {v.id : v \in vocab}
      bmp == {v \in vocab : Len(CodePointsOf(v.str)) = Len(v.str)}
  IN \A j \in 1..SettledUpTo :
       FallbackEntryFor(ids, At(uPrev, j), j) <=> ~PieceReaches(bmp, uText, j)

C23_FallbackOnlyIfNoBmpPiece == [](FallbackIffBmp) /\ [][FallbackKept]_vars

\* the forward pass has ended on a text that is one character of two units
\* and a piece of the trie, with a fallback entry at its end
C23_Witness ==
  /\ upc = "backtrack"
  /\ uText = <<chHi, chLo>>
  /\ <<chHi, chLo>> \in PieceStrings(uni)
  /\ IsFallbackEntry(uni, At(uPrev, 2), 2)

\* after the forward pass every position has prev set and a finite best
ForwardComplete ==
  (upc \in {"backtrack", "done"} /\ uCall.op = "encode" /\ Len(uText) > 0) =>
    \A j \in 1..Len(uText) : At(uPrev, j) # NoPrev /\ At(uBest, j) > NegInfinity

\* the backtrack is at a position whose prev is set
BacktrackOnSetPrev == (upc = "backtrack" /\ uPos > 0) => At(uPrev, uPos) # NoPrev

\* each step of the backtrack moves to a smaller position, not below 0, and
\* each step of the forward pass to the next i
PassesAdvance ==
  /\ (upc = "backtrack" /\ upc' = "backtrack") => (uPos' < uPos /\ uPos' >= 0)
  /\ (upc = "forward" /\ upc' = "forward") => (uI' = uI + 1 /\ uI' <= Len(uText))
  /\ (upc = "backtrack" /\ uPos = 0) => upc' = "done"

\* C24: for a model with finite scores and a non-empty normalized text of
\* length n, after the forward pass every position 1..n has prev set and a
\* finite best, the backtrack never meets an unset prev[pos], its positions
\* decrease strictly down to 0, and encode returns.
C24_BacktrackReachesZero ==
  [](ForwardComplete /\ BacktrackOnSetPrev) /\ [][PassesAdvance]_vars

\* the backtrack has reached 0 on a text of two characters, one of which no
\* piece of the trie covers
C24_Witness ==
  /\ upc = "backtrack" /\ uPos = 0
  /\ Len(uText) = 2
  /\ IsFallbackEntry(uni, At(uPrev, 2), 2)
  /\ ~IsFallbackEntry(uni, At(uPrev, 1), 1)

(***************************************************************************)
(* Properties of the merge loop of _bytePairMerge.                         *)
(***************************************************************************)
\* the bytes (hex) from the start of part j to the start of part k
SpanHex(hexPiece, prts, j, k) == substring(hexPiece, 2 * At(prts, j)[1], 2 * At(prts, k)[1])

\* some two adjacent remaining parts concatenate to a key of the rank map
SomePairIsKey(rks, hexPiece, prts) ==
  \E j \in 0..(Len(prts) - 3) : SpanHex(hexPiece, prts, j, j + 2) \in DOMAIN rks

\* the rank on every part but the last two is the lookup of the part joined
\* with its right neighbour
RanksAreLookups ==
  mpc = "loop" =>
    /\ \A j \in 0..(Len(parts) - 3) :
         At(parts, j)[2] = RankOf(ranks, SpanHex(piece, parts, j, j + 2))
    /\ (minRank[1] = RANK_MAX) <=> ~SomePairIsKey(ranks, piece, parts)

\* C25: whenever _bytePairMerge is at its loop test, the rank stored on each
\* part other than the last two equals the lookup of the bytes of that part
\* and its right neighbour (RANK_MAX when absent), so the loop stops exactly
\* when no two adjacent remaining parts concatenate to a key of the rank map.
C25_CachedRanksExact == RanksAreLookups

\* the loop is at its test after the merge of 'ab' in 'abc', the rank of
\* 'abc' being on the first part
C25_Witness ==
  /\ mpc = "loop" /\ piece = abcHex
  /\ Len(parts) = 3
  /\ abcHex \in DOMAIN ranks
  /\ minRank = <<ranks[abcHex], 0>>

RECURSIVE RefMerge(_, _)
\* the reference procedure on a list of hex strings: the rank of every
\* adjacent pair is looked up afresh, the leftmost pair of least rank is
\* merged, until no adjacent pair is a key
RefMerge(rks, segs) ==
  LET idx == 1..(Len(segs) - 1)
      pairRank(k) == RankOf(rks, segs[k] \o segs[k + 1])
  IN IF \A k \in idx : (segs[k] \o segs[k + 1]) \notin DOMAIN rks THEN segs
     ELSE LET k == CHOOSE x \in idx :
                     \A h \in idx : \/ pairRank(x) < pairRank(h)
                                    \/ (pairRank(x) = pairRank(h) /\ x <= h)
          IN RefMerge(rks, SubSeq(segs, 1, k - 1) \o <<segs[k] \o segs[k + 1]>>
                             \o SubSeq(segs, k + 2, Len(segs)))

\* the rank list of the reference procedure, from single bytes
RefEncode(rks, hexPiece) ==
  LET segs == RefMerge(rks, [k \in 1..(Len(hexPiece) \div 2) |->
                               substring(hexPiece, 2 * (k - 1), 2 * k)])
  IN [k \in 1..Len(segs) |-> GetOrUndefined(rks, segs[k])]

\* C26: for a rank map with all single bytes and a fragment of two or more
\* bytes, bytePairEncode returns the rank list of the reference procedure
\* that recomputes every adjacent pair from scratch and merges the leftmost
\* pair of least rank until no adjacent pair is in the map.
C26_SameAsReference ==
  (mpc = "done" /\ Len(piece) \div 2 >= 2) => tokens = RefEncode(ranks, piece)

\* a call on 'abbc' has returned [ab, bc]
C26_Witness ==
  /\ mpc = "done" /\ piece = HexOf(<<chLowA, chLowB, chLowB, chLowC>>)
  /\ abHex \in DOMAIN ranks /\ bcHex \in DOMAIN ranks
  /\ tokens = <<ranks[abHex], ranks[bcHex]>>

\* the start indices of the parts increase strictly from 0 to the sentinel n
StartsPartition ==
  (mpc \in {"loop", "done"} /\ Len(piece) \div 2 >= 2) =>
    /\ Len(parts) >= 2
    /\ At(parts, 0)[1] = 0
    /\ At(parts, Len(parts) - 1)[1] = Len(piece) \div 2
    /\ \A j \in 0..(Len(parts) - 2) : At(parts, j)[1] < At(parts, j + 1)[1]

\* the tokens returned are defined ranks, one per part, of spans that joined
\* give the fragment
TokensDefined ==
  (mpc = "done" /\ Len(piece) \div 2 >= 2) =>
    /\ Len(tokens) = Len(parts) - 1
    /\ \A k \in 1..Len(tokens) :
         /\ SpanHex(piece, parts, k - 1, k) \in DOMAIN ranks
         /\ tokens[k] = ranks[SpanHex(piece, parts, k - 1, k)]
    /\ Concat([k \in 1..Len(tokens) |-> SpanHex(piece, parts, k - 1, k)]) = piece

\* an iteration removes exactly one part; n + 1 parts at the start and never
\* fewer than two allow n - 1 iterations at most
OnePartRemoved ==
  /\ (mpc = "idle" /\ mpc' = "loop") => Len(parts') = (Len(piece') \div 2) + 1
  /\ (mpc = "loop" /\ mpc' = "loop") => (Len(parts') = Len(parts) - 1 /\ Len(parts') >= 2)

\* C27: _bytePairMerge ends after at most n - 1 merges for n bytes, each
\* iteration removing exactly one part; in every state the part starts are
\* strictly increasing from 0 to the sentinel n, so the spans of the tokens
\* partition the fragment in order; with the single bytes in the rank map
\* every token returned is a defined rank.
C27_PartsPartition == [](StartsPartition /\ TokensDefined) /\ [][OnePartRemoved]_vars

\* a call on 'abc' has returned after n - 1 = 2 merges with the one token
\* 'abc'
C27_Witness ==
  /\ mpc = "done" /\ piece = abcHex
  /\ Len(parts) = 2
  /\ abcHex \in DOMAIN ranks /\ tokens = <<ranks[abcHex]>>

(***************************************************************************)
(* Properties of ClipEncoding.encode.                                      *)
(***************************************************************************)
\* the ranks of <|startoftext|> and <|endoftext|>
BosOf(inst) == SpecialRank(inst, sotLiteral)
EosOf(inst) == SpecialRank(inst, eotLiteral)

\* C28: the output of ClipEncoding.encode starts with BOS; with at most 75
\* body tokens it is BOS, the body, EOS and zeros only; with more than 75 it
\* is BOS and the first 76 body tokens; so EOS is in the output if and only if
\* the body has at most 75 tokens.
C28_Framing ==
  (EncodeReturned /\ bpe.kind = "clip") =>
    /\ ~out.threw
    /\ out.value[1] = BosOf(bpe)
    /\ IF Len(ret) <= 75
       THEN out.value = <<BosOf(bpe)>> \o ret \o <<EosOf(bpe)>> \o [k \in 1..(75 - Len(ret)) |-> 0]
       ELSE out.value = <<BosOf(bpe)>> \o SubSeq(ret, 1, 76)
    /\ (\E k \in 1..Len(out.value) : out.value[k] = EosOf(bpe)) <=> (Len(ret) <= 75)

\* a call with exactly 76 body tokens has returned, and so has lost its EOS
C28_Witness ==
  /\ EncodeReturned /\ bpe.kind = "clip"
  /\ Len(ret) = 76
  /\ out.value[77] = ret[76]

\* C29: ClipEncoding.encode returns the same ids for every allowedSpecial
\* (encodeWithSpecialTokens(t) = encode(t)); no special literal of the input
\* is emitted as its special rank, BOS and EOS being in the output only as
\* the frame.
C29_SpecialsNeverMatched ==
  (EncodeReturned /\ bpe.kind = "clip") =>
    /\ \A k \in 1..Len(ret) : ret[k] \notin {BosOf(bpe), EosOf(bpe)}
    /\ ~out.threw
    /\ out.value = encode(bpe, call.text, Omitted)
    /\ out.value = encode(bpe, call.text, [given |-> TRUE, has |-> specialTokens(bpe)])

\* encodeWithSpecialTokens of a text that starts with <|endoftext|> has
\* returned
C29_Witness ==
  /\ bpc = "done" /\ call.op = "encodeWithSpecialTokens" /\ bpe.kind = "clip"
  /\ Len(call.text) > Len(eotLiteral)
  /\ SubSeq(call.text, 1, Len(eotLiteral)) = eotLiteral

(***************************************************************************)
(* Properties of streamLines.                                              *)
(***************************************************************************)
\* lines joined, a newline after each
JoinLines(lines) == Concat([k \in 1..Len(lines) |-> lines[k] \o <<chLf>>])

\* the text split on the newline, a final empty segment dropped
SplitDropLast(str) ==
  LET ls == SplitOn(str, chLf)
  IN IF ls[Len(ls)] = <<>> THEN SubSeq(ls, 1, Len(ls) - 1) ELSE ls

\* the lines given so far, those about to be given, the buffer and the chunks
\* still to come make up the text: nothing is lost, repeated or cut
NothingLost ==
  spc \in {"read", "yield"} =>
    /\ JoinLines(sYielded \o sPending) \o sBuffer \o Concat(sChunks) = sText
    /\ \A k \in 1..Len(sBuffer) : sBuffer[k] # chLf
    /\ \A k \in 1..Len(sYielded) : sYielded[k] = SplitOn(sText, chLf)[k]

\* C30: for every way of cutting a text into chunks (inside a line, at a
\* newline, with empty chunks) streamLines yields the text split on the
\* newline with a final empty segment dropped, interior empty lines kept; no
\* line is lost, duplicated or split.
C30_ChunkingIndependent ==
  /\ NothingLost
  /\ spc = "done" => sYielded = SplitDropLast(sText)

\* a stream has ended whose text has an empty line inside and no newline at
\* its end
C30_Witness ==
  /\ spc = "done"
  /\ sText = <<chLowA, chLf, chLf, chLowA>>
  /\ sYielded = << <<chLowA>>, <<>>, <<chLowA>> >>

====
